---- MODULE Spec2Model ----
(***************************************************************************)
(* Model of the benchmark harness of node-image-benchmarks: the CLI        *)
(* option parsing, the prepare loop, the suite loop over                   *)
(* (workload, renderer) cases, runCase (warmup, baseline, measured loop,   *)
(* statistics) and the assembly of the JSON and Markdown reports.          *)
(*                                                                         *)
(* Numbers.  JavaScript numbers are modelled as exact rationals            *)
(* [n |-> numerator, d |-> denominator > 0]; floating-point rounding       *)
(* error is not modelled.  Latencies are in milliseconds, memory in bytes. *)
(* Strings.  A command-line string is a sequence of tokens: a workload     *)
(* string is made of words, "," and " "; an integer string is made of      *)
(* single characters.                                                      *)
(***************************************************************************)
EXTENDS Integers, Sequences, FiniteSets, TLC

\* ------------------------------------------------------------------ bounds

\* Longest registry window (consecutive renderers of the shipped registry) a run uses.
MaxRenderers == 2

\* Largest --warmup and --iterations values of the single-case runs.
MaxWarmup == 2

MaxIterations == 5

\* Longest array a utils function is called with directly.
MaxLen == 3

\* Longest array of distinct values percentile is called with.
MaxRamp == 20

\* Significand bits of the number format of the direct mean calls (an IEEE
\* double has 53; the rounding of a sum works the same way with fewer).
FloatBits == 4

\* The number of calls in a sequence of direct prepare and run calls on the backends.
MaxCalls == 3

\* ------------------------------------------------------------------- state

VARIABLES
  argv,          \* the command line: workload, warmup, iterations, saveImages
  renderers,     \* the registry the run iterates over
  host,          \* the host: gc exposed or not, and what its clock, memory and backends yield
                 \* (latencies, memory samples, output sizes, metrics, failures, error messages,
                 \* and what the skia canvas offers to encode with)
  pc,            \* where the main module is
  options,       \* the parsed CliOptions (None until parsed)
  taskIdx,       \* position of the suite loop in options.tasks
  rendererIdx,   \* position of the prepare loop / suite loop in the registry
  iteration,     \* runCase's loop counter
  pending,       \* the backend calls issued and not yet settled
  local,         \* runCase's locals
  stats,         \* BenchCaseStats[]
  skipped,       \* BenchCaseSkip[]
  savedImages,   \* SavedImageRecord[]
  reportJson,    \* what was written to benchmark-report.json (None: not written)
  reportMarkdown, \* what was written to benchmark-report.md (None: not written)
  log,           \* history: calls issued and how they ended, cases in execution order
  util,          \* a direct call of a utils function: its arguments and what it returned
  modules        \* the module-level state of the backend modules: whether the one-time
                 \* initialisation is done, and how often it was performed

vars ==
  << argv, renderers, host, pc, options, taskIdx, rendererIdx, iteration, pending,
     local, stats, skipped, savedImages, reportJson, reportMarkdown, log, util, modules >>

\* ----------------------------------------------------------------- numbers

\* An optional value: None is undefined, Some(v) a defined value.
None == <<>>

Some(v) == <<v>>

ValueOf(opt) == opt[1]

Rat(n, d) == [n |-> n, d |-> d]

RatLe(a, b) == a.n * b.d <= b.n * a.d

RatLt(a, b) == a.n * b.d < b.n * a.d

RECURSIVE Gcd(_, _)
Gcd(a, b) == IF b = 0 THEN a ELSE Gcd(b, a % b)

\* The sum in lowest terms (a sum of 0 keeps the denominator 1).
RatAdd(a, b) ==
  LET n == a.n * b.d + b.n * a.d
      d == a.d * b.d
      g == Gcd(d, IF n < 0 THEN 0 - n ELSE n)
  IN Rat(n \div g, d \div g)

RECURSIVE Pow2(_)
Pow2(k) == IF k = 0 THEN 1 ELSE 2 * Pow2(k - 1)

\* n / d >= 0 scaled by a power of two into [2^(p-1), 2^p): [n, d, e] with
\* n / d * 2^e the value given.
RECURSIVE FloatExp(_, _, _, _)
FloatExp(n, d, p, e) ==
  IF n >= Pow2(p) * d THEN FloatExp(n, 2 * d, p, e + 1)
  ELSE IF n < Pow2(p - 1) * d THEN FloatExp(2 * n, d, p, e - 1)
  ELSE [n |-> n, d |-> d, e |-> e]

\* Round to nearest integer, ties to even.
RoundHalfEven(n, d) ==
  LET q == n \div d
      r == n % d
  IN IF 2 * r > d THEN q + 1
     ELSE IF 2 * r < d THEN q
     ELSE IF q % 2 = 0 THEN q ELSE q + 1

\* The number with p significand bits nearest to x (ties to even), in lowest terms.
RoundToBits(x, p) ==
  IF x.n = 0 THEN Rat(0, 1)
  ELSE LET sign == IF x.n < 0 THEN 0 - 1 ELSE 1
           f == FloatExp(sign * x.n, x.d, p, 0)
           m == RoundHalfEven(f.n, f.d)
       IN IF f.e >= 0 THEN Rat(sign * m * Pow2(f.e), 1)
          ELSE LET g == Gcd(Pow2(0 - f.e), m)
               IN Rat(sign * (m \div g), Pow2(0 - f.e) \div g)

\* The result of an arithmetic operation as the host's number format stores
\* it; mantissa 0 stands for a format whose rounding error is below what the
\* run can observe (the statistics are rounded to 0.001): the exact value.
Fl(x) == IF host.mantissa = 0 THEN x ELSE RoundToBits(x, host.mantissa)

\* a + b and a / k (k a positive integer) on numbers.
NumAdd(a, b) == Fl(RatAdd(a, b))

NumDiv(a, k) == Fl(Rat(a.n, a.d * k))

\* Math.max / Math.min on two numbers.
MathMax(a, b) == IF RatLe(a, b) THEN b ELSE a

MathMin(a, b) == IF RatLe(a, b) THEN a ELSE b

\* Math.round: the integer nearest to value, halves rounded towards +Infinity,
\* i.e. floor(value + 1/2).
MathRound(value) == (2 * value.n + value.d) \div (2 * value.d)

\* Math.ceil of a rational.
MathCeil(value) == -((-value.n) \div value.d)

\* values.reduce((sum, value) => sum + value, 0): from the left, starting at 0.
RECURSIVE SumSeq(_)
SumSeq(values) ==
  IF values = <<>> THEN Rat(0, 1)
  ELSE NumAdd(SumSeq(SubSeq(values, 1, Len(values) - 1)), values[Len(values)])

\* Math.max(...values) / Math.min(...values): -Infinity / Infinity when empty.
RECURSIVE MaxSeq(_)
MaxSeq(values) ==
  IF values = <<>> THEN "-Infinity"
  ELSE IF Len(values) = 1 THEN values[1]
  ELSE MathMax(Head(values), MaxSeq(Tail(values)))

RECURSIVE MinSeq(_)
MinSeq(values) ==
  IF values = <<>> THEN "Infinity"
  ELSE IF Len(values) = 1 THEN values[1]
  ELSE MathMin(Head(values), MinSeq(Tail(values)))

\* ------------------------------------------------------------- utils (stats)

\* round(value, digits = 3): Math.round(value * 10^3) / 10^3.
roundTruncates(value) == Rat((1000 * value.n) \div value.d, 1000)

round(value) == Rat(MathRound(Rat(1000 * value.n, value.d)), 1000)

\* round(value, 2), used by formatOutput.
round2(value) == Rat(MathRound(Rat(100 * value.n, value.d)), 100)

meanDropsOne(values) ==
  IF Len(values) = 0 THEN Rat(0, 1)
  ELSE IF Len(values) = 1 THEN values[1]
  ELSE NumDiv(SumSeq(values), Len(values) - 1)

meanOfNothingIsNegative(values) ==
  IF Len(values) = 0 THEN Rat(0 - 1, 1)
  ELSE NumDiv(SumSeq(values), Len(values))

mean(values) ==
  IF Len(values) = 0 THEN Rat(0, 1)
  ELSE NumDiv(SumSeq(values), Len(values))

\* [...values].sort((a, b) => a - b): stable ascending insertion into a copy.
RECURSIVE InsertAsc(_, _)
InsertAsc(sorted, v) ==
  IF sorted = <<>> THEN <<v>>
  ELSE IF RatLt(v, Head(sorted)) THEN <<v>> \o sorted
  ELSE <<Head(sorted)>> \o InsertAsc(Tail(sorted), v)

RECURSIVE SortAsc(_)
SortAsc(values) ==
  IF values = <<>> THEN <<>>
  ELSE InsertAsc(SortAsc(SubSeq(values, 1, Len(values) - 1)), values[Len(values)])

IntMin(a, b) == IF a <= b THEN a ELSE b

IntMax(a, b) == IF a >= b THEN a ELSE b

\* percentile(values, fraction); the index is 0-based in the source, hence +1.
percentileSortsInPlace(values) == SortAsc(values)

percentileFloorIndex(values, fraction) ==
  IF Len(values) = 0 THEN Rat(0, 1)
  ELSE LET sorted == SortAsc(values)
           index == IntMin(Len(sorted) - 1,
                           IntMax(0, ((Len(sorted) * fraction.n) \div fraction.d) - 1))
       IN sorted[index + 1]

\* The caller's array after percentile(values, fraction): line 199 sorts the
\* copy [...values], values itself is never written.
ArrayAfterPercentile(values) == values

percentile(values, fraction) ==
  IF Len(values) = 0 THEN Rat(0, 1)
  ELSE LET sorted == SortAsc(values)
           index == IntMin(Len(sorted) - 1,
                           IntMax(0, MathCeil(Rat(Len(sorted) * fraction.n, fraction.d)) - 1))
       IN sorted[index + 1]

formatMb(bytes) == Rat(bytes.n, bytes.d * (1024 * 1024))

\* ------------------------------------------------------------ workload names

ALL_TASKS ==
  << "image-buffer", "image-stream", "kitchen-sink", "text-layout",
     "encode-png", "encode-webp", "encode-svg" >>

Range(seq) == { seq[i] : i \in 1..Len(seq) }

RECURSIVE SelectSeqBy(_, _)
\* Array.prototype.filter with the predicate given as the set of kept elements' indices.
SelectSeqBy(seq, keep) ==
  IF seq = <<>> THEN <<>>
  ELSE SelectSeqBy(SubSeq(seq, 1, Len(seq) - 1), keep)
         \o (IF Len(seq) \in keep THEN <<seq[Len(seq)]>> ELSE <<>>)

\* ------------------------------------------------------------- CLI parsing

\* String.prototype.split(","): the pieces between the commas (always at least one).
RECURSIVE SplitComma(_)
SplitComma(str) ==
  IF \A i \in 1..Len(str) : str[i] # "," THEN <<str>>
  ELSE LET c == CHOOSE i \in 1..Len(str) :
                  str[i] = "," /\ \A j \in 1..(i - 1) : str[j] # ","
       IN <<SubSeq(str, 1, c - 1)>> \o SplitComma(SubSeq(str, c + 1, Len(str)))

\* String.prototype.trim(): leading and trailing blanks removed.
RECURSIVE TrimStart(_)
TrimStart(str) ==
  IF str # <<>> /\ Head(str) = " " THEN TrimStart(Tail(str)) ELSE str

RECURSIVE TrimEnd(_)
TrimEnd(str) ==
  IF str # <<>> /\ str[Len(str)] = " " THEN TrimEnd(SubSeq(str, 1, Len(str) - 1)) ELSE str

Trim(str) == TrimEnd(TrimStart(str))

\* Array.prototype.flatMap(item => item.split(",")).
RECURSIVE FlatMapSplit(_)
FlatMapSplit(items) ==
  IF items = <<>> THEN <<>>
  ELSE SplitComma(Head(items)) \o FlatMapSplit(Tail(items))

\* ALL_TASKS.includes(item): the item is exactly one word, a task name.
IsTaskName(item) == Len(item) = 1 /\ item[1] \in Range(ALL_TASKS)

\* parseTasks: [ok |-> TRUE, tasks] or [ok |-> FALSE, error, invalid] for a thrown Error.
parseTasksWithoutTrim(value) ==
  IF value = None THEN [ok |-> TRUE, tasks |-> ALL_TASKS]
  ELSE LET pieces == FlatMapSplit(ValueOf(value))
           requested == SelectSeqBy(pieces, { i \in 1..Len(pieces) : pieces[i] # <<>> })
           invalid == SelectSeqBy(requested,
                                  { i \in 1..Len(requested) : ~IsTaskName(requested[i]) })
       IN IF Len(requested) = 0
            THEN [ok |-> FALSE, error |-> "--workload requires at least one task name",
                  invalid |-> <<>>]
          ELSE IF Len(invalid) > 0
            THEN [ok |-> FALSE, error |-> "Unknown workload(s)", invalid |-> invalid]
          ELSE [ok |-> TRUE,
                tasks |-> [i \in 1..Len(requested) |-> requested[i][1]]]

parseTasks(value) ==
  IF value = None THEN [ok |-> TRUE, tasks |-> ALL_TASKS]
  ELSE LET pieces == FlatMapSplit(ValueOf(value))
           trimmed == [i \in 1..Len(pieces) |-> Trim(pieces[i])]
           requested == SelectSeqBy(trimmed, { i \in 1..Len(trimmed) : trimmed[i] # <<>> })
           invalid == SelectSeqBy(requested,
                                  { i \in 1..Len(requested) : ~IsTaskName(requested[i]) })
       IN IF Len(requested) = 0
            THEN [ok |-> FALSE, error |-> "--workload requires at least one task name",
                  invalid |-> <<>>]
          ELSE IF Len(invalid) > 0
            THEN [ok |-> FALSE, error |-> "Unknown workload(s)", invalid |-> invalid]
          ELSE [ok |-> TRUE,
                tasks |-> [i \in 1..Len(requested) |-> requested[i][1]]]

Digits == << "0", "1", "2", "3", "4", "5", "6", "7", "8", "9" >>

IsDigit(c) == c \in Range(Digits)

DigitValue(c) == (CHOOSE i \in 1..Len(Digits) : Digits[i] = c) - 1

RECURSIVE ParseDigits(_, _)
\* The value of the longest prefix of decimal digits, after acc.
ParseDigits(chars, acc) ==
  IF chars = <<>> \/ ~IsDigit(Head(chars)) THEN acc
  ELSE ParseDigits(Tail(chars), 10 * acc + DigitValue(Head(chars)))

\* Number.parseInt(value, 10): blanks skipped, an optional sign, then the longest
\* prefix of digits; NaN when there is no digit.  A number is [nan, value].
NumberParseInt(value) ==
  LET s == TrimStart(value)
      signed == s # <<>> /\ Head(s) \in {"-", "+"}
      body == IF signed THEN Tail(s) ELSE s
  IN IF body = <<>> \/ ~IsDigit(Head(body)) THEN [nan |-> TRUE, value |-> 0]
     ELSE IF signed /\ Head(s) = "-" THEN [nan |-> FALSE, value |-> 0 - ParseDigits(body, 0)]
     ELSE [nan |-> FALSE, value |-> ParseDigits(body, 0)]

\* Number.isFinite of a parseInt result.
NumberIsFinite(parsed) == ~parsed.nan

\* parseInteger: [ok |-> TRUE, value] or [ok |-> FALSE, error] for a thrown Error.
parseIntegerAllowsZero(value, fallback, label) ==
  IF value = None THEN [ok |-> TRUE, value |-> fallback]
  ELSE LET parsed == NumberParseInt(ValueOf(value))
       IN IF ~NumberIsFinite(parsed) \/ parsed.value < 0
            THEN [ok |-> FALSE, error |-> <<label, "must be a positive integer">>]
            ELSE [ok |-> TRUE, value |-> parsed.value]

parseInteger(value, fallback, label) ==
  IF value = None THEN [ok |-> TRUE, value |-> fallback]
  ELSE LET parsed == NumberParseInt(ValueOf(value))
       IN IF ~NumberIsFinite(parsed) \/ parsed.value <= 0
            THEN [ok |-> FALSE, error |-> <<label, "must be a positive integer">>]
            ELSE [ok |-> TRUE, value |-> parsed.value]

\* parseCliOptions: parseTasks, then warmup, then iterations; the first throw wins.
parseCliOptions(args) ==
  LET tasks == parseTasks(args.workload)
      warmup == parseInteger(args.warmup, 3, "warmup")
      iterations == parseInteger(args.iterations, 12, "iterations")
  IN IF ~tasks.ok THEN [ok |-> FALSE, error |-> <<"workload", tasks.error>>]
     ELSE IF ~warmup.ok THEN [ok |-> FALSE, error |-> warmup.error]
     ELSE IF ~iterations.ok THEN [ok |-> FALSE, error |-> iterations.error]
     ELSE [ok |-> TRUE,
           options |-> [tasks |-> tasks.tasks,
                        warmup |-> warmup.value,
                        iterations |-> iterations.value,
                        saveImages |-> args.saveImages]]

\* ---------------------------------------------------------------- renderers

\* The shipped registry, in registration order; prepare tells whether the
\* renderer defines the optional prepare.
benchRenderers ==
  << [name |-> "@napi-rs/canvas", prepare |-> TRUE],
     [name |-> "node-canvas", prepare |-> TRUE],
     [name |-> "skia-canvas", prepare |-> FALSE],
     [name |-> "takumi (jsx+style)", prepare |-> TRUE],
     [name |-> "takumi (jsx+tw)", prepare |-> TRUE],
     [name |-> "satori (jsx+style)", prepare |-> TRUE],
     [name |-> "satori (jsx+tw)", prepare |-> TRUE] >>

TakumiRenderers == {"takumi (jsx+style)", "takumi (jsx+tw)"}

\* The format of the image a renderer's run returns for a task.
ImageFormat(name, task) ==
  IF task = "encode-svg" THEN "svg"
  ELSE IF task = "encode-webp" THEN "webp"
  ELSE "png"

\* The ways one run call can end: "image" or "metric" (it returns that result),
\* "unsupported" (it raises UnsupportedTaskError) or "fatal" (it raises another
\* error: image loading, drawing, measuring or the rendering library failed).
napiCanvasRun(task) ==
  IF task = "text-layout" THEN {"metric", "fatal"}
  ELSE IF task = "encode-svg" THEN {"unsupported", "fatal"}
  ELSE {"image", "unsupported", "fatal"}

nodeCanvasRun(task) ==
  IF task = "text-layout" THEN {"metric", "fatal"}
  ELSE {"image", "unsupported", "fatal"}

\* skia-canvas encodes with canvas.toBuffer when the canvas has it (a failure is
\* wrapped), else for png with the canvas.png promise (a failure is not wrapped),
\* else it raises UnsupportedTaskError.
skiaCanvasRun(task) ==
  IF task = "text-layout" THEN {"metric", "fatal"}
  ELSE IF host.canvas = "toBuffer" THEN {"image", "unsupported", "fatal"}
  ELSE IF host.canvas = "png" /\ ImageFormat("skia-canvas", task) = "png"
    THEN {"image", "fatal"}
  ELSE {"unsupported", "fatal"}

takumiRunEncodesSvg(task) ==
  IF task = "text-layout" THEN {"metric", "fatal"}
  ELSE {"image", "unsupported", "fatal"}

takumiRun(task) ==
  IF task = "encode-svg" THEN {"unsupported"}
  ELSE IF task = "text-layout" THEN {"metric", "fatal"}
  ELSE {"image", "unsupported", "fatal"}

satoriRunTextLayoutImage(task) ==
  IF task = "encode-webp" THEN {"unsupported"} ELSE {"image", "fatal"}

satoriRun(task) ==
  IF task = "encode-webp" THEN {"unsupported"}
  ELSE IF task = "text-layout" THEN {"metric", "fatal"}
  ELSE {"image", "fatal"}

\* The module whose top-level state a renderer's one-time initialisation uses:
\* fontsRegistered of napiCanvas, nodeCanvas and skiaCanvas, takumiEnginePromise
\* of takumi (one for both variants), fontsPromise of satori (one for both).
ModuleOf(name) ==
  IF name = "@napi-rs/canvas" THEN "napiCanvas"
  ELSE IF name = "node-canvas" THEN "nodeCanvas"
  ELSE IF name = "skia-canvas" THEN "skiaCanvas"
  ELSE IF name \in TakumiRenderers THEN "takumi"
  ELSE "satori"

ModuleNames == { ModuleOf(benchRenderers[i].name) : i \in 1..Len(benchRenderers) }

\* The modules that memoise a promise; the others guard with a flag.
MemoisingModules == {"takumi", "satori"}

\* state is "fresh" (flag false, promise null), "ready" (flag true, promise
\* fulfilled) or "broken" (promise rejected); inits counts how often the first
\* part of the initialisation was carried out (the regular font registered, the
\* font files read and the engine constructed).
ModulesInit == [m \in ModuleNames |-> [state |-> "fresh", inits |-> 0]]

\* How the initialisation can end when a call asks for it: "ok"; "first" (it
\* throws in its first part, nothing was done); "second" (it throws after its
\* first part: the semibold font is not registered, the engine does not load
\* the fonts); "rejected" (the memoised promise was rejected before).  A set flag
\* returns at once, a settled promise is handed out again.
InitOutcomes(mods, name) ==
  IF mods[ModuleOf(name)].state = "ready" THEN {"ok"}
  ELSE IF mods[ModuleOf(name)].state = "broken" THEN {"rejected"}
  ELSE {"ok", "first", "second"}

\* ensureFonts / getEngine / getFonts: the module state after a call asked for
\* the initialisation and it ended with the outcome.  A throw leaves the flag
\* unset; a rejected promise stays memoised.
AfterInitOfRetryingPromise(mods, name, outcome) ==
  LET m == ModuleOf(name)
  IN IF mods[m].state = "ready" THEN mods
     ELSE [mods EXCEPT ![m] = [state |-> IF outcome = "ok" THEN "ready" ELSE "fresh",
                               inits |-> mods[m].inits + (IF outcome = "first" THEN 0 ELSE 1)]]

AfterInit(mods, name, outcome) ==
  LET m == ModuleOf(name)
  IN IF mods[m].state # "fresh" THEN mods
     ELSE [mods EXCEPT ![m] = [state |-> IF outcome = "ok" THEN "ready"
                                         ELSE IF m \in MemoisingModules THEN "broken"
                                         ELSE "fresh",
                               inits |-> mods[m].inits + (IF outcome = "first" THEN 0 ELSE 1)]]

\* run asks for the initialisation before anything else, except satori's, which
\* refuses encode-webp first.
RunInits(name, task) == ~(ModuleOf(name) = "satori" /\ task = "encode-webp")

AfterRun(mods, name, task, outcome) ==
  IF RunInits(name, task) THEN AfterInit(mods, name, outcome) ELSE mods

\* Where one run call can throw, and what then leaves run: step is "fonts"
\* (skia-canvas's font registration, done in run), "load"
\* (reading the stream, decoding the images), "draw" (the canvas scene),
\* "measure" (text measurement), "convert" (JSX to nodes), "render" (the engine's
\* or satori's render), "encode" (the encoder), "reject" (the task is refused
\* before any work); raises is "unsupported" or "fatal".
Thrown(step, raises) == [step |-> step, raises |-> raises]

napiCanvasThrows(task) ==
  IF task = "text-layout" THEN { Thrown("measure", "fatal") }
  ELSE { Thrown("load", "fatal"), Thrown("draw", "fatal"), Thrown("encode", "unsupported") }

nodeCanvasThrowsUnwrapped(task) ==
  IF task = "text-layout" THEN { Thrown("measure", "fatal") }
  ELSE { Thrown("load", "fatal"), Thrown("draw", "fatal"), Thrown("encode", "fatal") }

nodeCanvasThrows(task) ==
  IF task = "text-layout" THEN { Thrown("measure", "fatal") }
  ELSE { Thrown("load", "fatal"), Thrown("draw", "fatal"), Thrown("encode", "unsupported") }

skiaCanvasThrows(task) ==
  IF task = "text-layout" THEN { Thrown("fonts", "fatal"), Thrown("measure", "fatal") }
  ELSE { Thrown("fonts", "fatal"), Thrown("load", "fatal"), Thrown("draw", "fatal"),
         Thrown("encode",
                IF host.canvas = "png" /\ ImageFormat("skia-canvas", task) = "png"
                  THEN "fatal" ELSE "unsupported") }

takumiThrows(task) ==
  IF task = "encode-svg" THEN { Thrown("reject", "unsupported") }
  ELSE IF task = "text-layout" THEN { Thrown("convert", "fatal"), Thrown("measure", "fatal") }
  ELSE (IF task = "image-stream" THEN { Thrown("load", "fatal") } ELSE {})
         \cup { Thrown("convert", "fatal"), Thrown("render", "unsupported") }

satoriThrows(task) ==
  IF task = "encode-webp" THEN { Thrown("reject", "unsupported") }
  ELSE IF task = "text-layout" THEN { Thrown("render", "fatal") }
  ELSE (IF task = "image-stream" THEN { Thrown("load", "fatal") } ELSE {})
         \cup { Thrown("render", "fatal"), Thrown("encode", "fatal") }

RunThrows(name, task) ==
  IF name = "@napi-rs/canvas" THEN napiCanvasThrows(task)
  ELSE IF name = "node-canvas" THEN nodeCanvasThrows(task)
  ELSE IF name = "skia-canvas" THEN skiaCanvasThrows(task)
  ELSE IF name \in TakumiRenderers THEN takumiThrows(task)
  ELSE satoriThrows(task)

RunOutcomes(name, task) ==
  IF name = "@napi-rs/canvas" THEN napiCanvasRun(task)
  ELSE IF name = "node-canvas" THEN nodeCanvasRun(task)
  ELSE IF name = "skia-canvas" THEN skiaCanvasRun(task)
  ELSE IF name \in TakumiRenderers THEN takumiRun(task)
  ELSE satoriRun(task)

\* ------------------------------------------------------------ module start

Opts == ValueOf(options)

\* runCase's locals before line 196 has run.
LocalInit ==
  [ baseline |-> [rss |-> 0, heapUsed |-> 0],
    times |-> <<>>,
    outputs |-> <<>>,
    rssPeak |-> 0,
    heapPeak |-> 0,
    outputKind |-> "metric",
    outputUnit |-> "value",
    sample |-> None ]

LogInit ==
  [ calls |-> 0,
    prepareCalls |-> [i \in 1..Len(benchRenderers) |-> 0],
    prepareReturned |-> [i \in 1..Len(benchRenderers) |-> 0],
    executed |-> <<>>,
    statsCase |-> <<>>,
    skipCase |-> <<>>,
    gcCalls |-> 0,
    prepareRaised |-> None ]

\* No utils function is being called directly.
UtilIdle ==
  [ fn |-> "none", returned |-> FALSE, input |-> <<>>, values |-> <<>>,
    fraction |-> Rat(0, 1), result |-> Rat(0, 1) ]

\* The state when the main module starts, for a command line, a registry and a host.
InitWith(args, registries, hosts) ==
  /\ argv \in args
  /\ renderers \in registries
  /\ host \in hosts
  /\ pc = "parse"
  /\ options = None
  /\ taskIdx = 0
  /\ rendererIdx = 0
  /\ iteration = 0
  /\ pending = {}
  /\ local = LocalInit
  /\ stats = <<>>
  /\ skipped = <<>>
  /\ savedImages = <<>>
  /\ reportJson = None
  /\ reportMarkdown = None
  /\ log = LogInit
  /\ util = UtilIdle
  /\ modules = ModulesInit

\* ------------------------------------------------------------------ runCase

CurrentTask == Opts.tasks[taskIdx]

CurrentRenderer == renderers[rendererIdx]

\* A renderer can only ever raise UnsupportedTaskError for the task.
NeverSucceeds(name, task) == RunOutcomes(name, task) \cap {"image", "metric"} = {}

\* The failures one run call of the renderer can end in on this host.
RunFailures(name, task) ==
  { f \in RunOutcomes(name, task) \cap {"unsupported", "fatal"} :
      \/ f \in host.failures
      \/ f = "unsupported" /\ NeverSucceeds(name, task) }

\* The TaskOutput values one run call of the renderer can return on this host.
RunOutputs(name, task) ==
  IF "image" \in RunOutcomes(name, task)
    THEN { [kind |-> "image", bytes |-> b, format |-> ImageFormat(name, task),
            buffer |-> [length |-> b]] : b \in host.sizes }
  ELSE IF "metric" \in RunOutcomes(name, task)
    THEN { [kind |-> "metric", value |-> v] : v \in host.metrics }
  ELSE {}

outputValueAsNumberOfMetricOnly(output) ==
  IF output.kind = "metric" THEN output.value ELSE Rat(0, 1)

outputValueAsNumber(output) ==
  IF output.kind = "image" THEN Rat(output.bytes, 1) ELSE output.value

\* Lines 230-231: the running peak after one more memory sample.
UpdatePeakKeepsLatest(peak, sample) == sample

UpdatePeak(peak, sample) == IF sample > peak THEN sample ELSE peak

\* Lines 196-209: the locals of the measured loop, from the baseline sample.
MeasuredLocals(baseline) ==
  [ baseline |-> baseline,
    times |-> <<>>,
    outputs |-> <<>>,
    rssPeak |-> baseline.rss,
    heapPeak |-> baseline.heapUsed,
    outputKind |-> "metric",
    outputUnit |-> "value",
    sample |-> None ]

\* Lines 216-231: the body of the measured loop after run has returned output,
\* end - start being latency and memory the sample taken afterwards.
MeasuredStepAlwaysCaptures(loc, opts, output, latency, memory) ==
  [ loc EXCEPT
      !.outputKind = output.kind,
      !.outputUnit = IF output.kind = "image" THEN "bytes" ELSE "value",
      !.sample = IF loc.sample = None /\ output.kind = "image"
                   THEN Some([format |-> output.format, buffer |-> output.buffer])
                   ELSE loc.sample,
      !.times = Append(loc.times, latency),
      !.outputs = Append(loc.outputs, outputValueAsNumber(output)),
      !.rssPeak = UpdatePeak(loc.rssPeak, memory.rss),
      !.heapPeak = UpdatePeak(loc.heapPeak, memory.heapUsed) ]

MeasuredStepKeepsLatestSample(loc, opts, output, latency, memory) ==
  [ loc EXCEPT
      !.outputKind = output.kind,
      !.outputUnit = IF output.kind = "image" THEN "bytes" ELSE "value",
      !.sample = IF opts.saveImages /\ output.kind = "image"
                   THEN Some([format |-> output.format, buffer |-> output.buffer])
                   ELSE loc.sample,
      !.times = Append(loc.times, latency),
      !.outputs = Append(loc.outputs, outputValueAsNumber(output)),
      !.rssPeak = UpdatePeak(loc.rssPeak, memory.rss),
      !.heapPeak = UpdatePeak(loc.heapPeak, memory.heapUsed) ]

MeasuredStep(loc, opts, output, latency, memory) ==
  [ loc EXCEPT
      !.outputKind = output.kind,
      !.outputUnit = IF output.kind = "image" THEN "bytes" ELSE "value",
      !.sample = IF opts.saveImages /\ loc.sample = None /\ output.kind = "image"
                   THEN Some([format |-> output.format, buffer |-> output.buffer])
                   ELSE loc.sample,
      !.times = Append(loc.times, latency),
      !.outputs = Append(loc.outputs, outputValueAsNumber(output)),
      !.rssPeak = UpdatePeak(loc.rssPeak, memory.rss),
      !.heapPeak = UpdatePeak(loc.heapPeak, memory.heapUsed) ]

\* Lines 237-253: the BenchCaseStats runCase returns.
CaseStats(task, name, opts, loc, ending) ==
  [ renderer |-> name,
    task |-> task,
    iterations |-> opts.iterations,
    warmup |-> opts.warmup,
    avgMs |-> round(mean(loc.times)),
    p95Ms |-> round(percentile(loc.times, Rat(95, 100))),
    minMs |-> round(MinSeq(loc.times)),
    maxMs |-> round(MaxSeq(loc.times)),
    rssPeakDeltaMb |-> round(formatMb(Rat(loc.rssPeak - loc.baseline.rss, 1))),
    heapPeakDeltaMb |-> round(formatMb(Rat(loc.heapPeak - loc.baseline.heapUsed, 1))),
    heapEndDeltaMb |-> round(formatMb(Rat(ending.heapUsed - loc.baseline.heapUsed, 1))),
    outputKind |-> loc.outputKind,
    outputAverage |-> round(mean(loc.outputs)),
    outputUnit |-> loc.outputUnit ]

\* ------------------------------------------------------------------- report

\* toSafeFileName on the names that occur: lower case, runs of other characters
\* turned into "-", leading and trailing "-" dropped.
toSafeFileName(input) ==
  CASE input = "@napi-rs/canvas" -> "napi-rs-canvas"
    [] input = "takumi (jsx+style)" -> "takumi-jsx-style"
    [] input = "takumi (jsx+tw)" -> "takumi-jsx-tw"
    [] input = "satori (jsx+style)" -> "satori-jsx-style"
    [] input = "satori (jsx+tw)" -> "satori-jsx-tw"
    [] OTHER -> input

\* Lines 378-386: the SavedImageRecord of a case's sample.
SavedImage(task, name, sample) ==
  [ renderer |-> name,
    task |-> task,
    format |-> sample.format,
    path |-> << "saveDir", toSafeFileName(task), "__", toSafeFileName(name), ".",
                sample.format >> ]

formatOutput(row) ==
  IF row.outputKind = "image"
    THEN [ value |-> round2(Rat(row.outputAverage.n, row.outputAverage.d * 1024)),
           suffix |-> " KB" ]
    ELSE [ value |-> round2(row.outputAverage), suffix |-> "" ]

\* rows.sort((left, right) => left.avgMs - right.avgMs) on the filtered copy: stable.
RECURSIVE InsertByAvgDescending(_, _)
InsertByAvgDescending(sorted, row) ==
  IF sorted = <<>> THEN <<row>>
  ELSE IF RatLt(Head(sorted).avgMs, row.avgMs) THEN <<row>> \o sorted
  ELSE <<Head(sorted)>> \o InsertByAvgDescending(Tail(sorted), row)

RECURSIVE InsertByAvg(_, _)
InsertByAvg(sorted, row) ==
  IF sorted = <<>> THEN <<row>>
  ELSE IF RatLt(row.avgMs, Head(sorted).avgMs) THEN <<row>> \o sorted
  ELSE <<Head(sorted)>> \o InsertByAvg(Tail(sorted), row)

RECURSIVE SortByAvg(_)
SortByAvg(rows) ==
  IF rows = <<>> THEN <<>>
  ELSE InsertByAvg(SortByAvg(SubSeq(rows, 1, Len(rows) - 1)), rows[Len(rows)])

\* Lines 299-301: the rows of a task's table.
TaskRows(entries, task) ==
  SortByAvg(SelectSeqBy(entries, { i \in 1..Len(entries) : entries[i].task = task }))

\* Lines 316-320: one table line.
RowLine(row) ==
  [ renderer |-> row.renderer, avgMs |-> row.avgMs, p95Ms |-> row.p95Ms,
    minMs |-> row.minMs, maxMs |-> row.maxMs,
    rssPeakDeltaMb |-> row.rssPeakDeltaMb, heapPeakDeltaMb |-> row.heapPeakDeltaMb,
    output |-> formatOutput(row) ]

\* Lines 298-323: the section of one task: its heading, then either the line
\* "No successful runs." (note) or the table of its rows.
TaskSection(entries, task) ==
  LET rows == TaskRows(entries, task)
  IN [ heading |-> <<"##", task>>,
       note |-> IF Len(rows) = 0 THEN << "No successful runs." >> ELSE <<>>,
       rows |-> [i \in 1..Len(rows) |-> RowLine(rows[i])] ]

\* replaceAll("|", "\\|") on a string given as its pieces.
replaceAllPipes(str) ==
  [i \in 1..Len(str) |-> IF str[i] = "|" THEN "\\|" ELSE str[i]]

\* Line 332: one line of the skipped table.
SkipLine(skip) ==
  [ renderer |-> skip.renderer, task |-> skip.task,
    reason |-> replaceAllPipes(skip.reason) ]

\* Line 345: one line of the saved-images table.
ImageLine(image) ==
  [ renderer |-> image.renderer, task |-> image.task, format |-> image.format,
    path |-> replaceAllPipes(image.path) ]

\* buildMarkdownReport: the header, one section per entry of options.tasks, then
\* the skipped table and the saved-images table when they are not empty.
buildMarkdownReport(opts, entries, skips, images) ==
  [ header |-> [ gcExposed |-> host.gc, warmup |-> opts.warmup,
                 iterations |-> opts.iterations ],
    tasks |-> [i \in 1..Len(opts.tasks) |-> TaskSection(entries, opts.tasks[i])],
    skipped |-> IF Len(skips) > 0
                  THEN << [ heading |-> <<"##", "Unsupported / Skipped">>,
                            lines |-> [i \in 1..Len(skips) |-> SkipLine(skips[i])] ] >>
                  ELSE <<>>,
    savedImages |-> IF Len(images) > 0
                      THEN << [ heading |-> <<"##", "Saved Images">>,
                                lines |-> [i \in 1..Len(images) |-> ImageLine(images[i])] ] >>
                      ELSE <<>> ]

\* Lines 298-301, 330 and 343: what buildMarkdownReport leaves in the arrays it
\* was given. filter returns a new array and sort sorts that array in place, so
\* the statistics array is as it was; the skip and saved-image arrays are only
\* iterated.
StatsSortedInPlace(opts, entries) == SortByAvg(entries)

StatsAfterMarkdown(opts, entries) == entries

SkippedAfterMarkdown(skips) == skips

SavedImagesAfterMarkdown(images) == images

\* Lines 407-419: reportJson (the timestamp and the platform fields left out).
ReportJsonWithoutSkips(opts, entries, skips, images) ==
  [ tasks |-> opts.tasks,
    warmup |-> opts.warmup,
    iterations |-> opts.iterations,
    gcExposed |-> host.gc,
    stats |-> entries,
    skipped |-> <<>>,
    savedImages |-> images ]

ReportJson(opts, entries, skips, images) ==
  [ tasks |-> opts.tasks,
    warmup |-> opts.warmup,
    iterations |-> opts.iterations,
    gcExposed |-> host.gc,
    stats |-> entries,
    skipped |-> skips,
    savedImages |-> images ]

\* ----------------------------------------------------------------- actions

\* Lines 368-369: the case after (t, r) in the nested loops, as <<task index, renderer index>>.
AdvanceCaseBackendMajor(t, r) ==
  IF t < Len(Opts.tasks) THEN <<t + 1, r>>
  ELSE IF r < Len(renderers) THEN <<1, r + 1>>
  ELSE <<Len(Opts.tasks) + 1, 1>>

AdvanceCase(t, r) ==
  IF r < Len(renderers) THEN <<t, r + 1>> ELSE <<t + 1, 1>>

\* The history entry of the case being executed.
ThisCase == Len(log.executed)

NewCall(op) == [id |-> log.calls + 1, op |-> op, renderer |-> rendererIdx]

\* Lines 354-358: parseCliOptions; a thrown Error ends the process.
ParseCliOptions ==
  /\ pc = "parse"
  /\ LET parsed == parseCliOptions(argv)
     IN IF parsed.ok
          THEN /\ options' = Some(parsed.options)
               /\ rendererIdx' = 1
               /\ pc' = "prepare"
          ELSE /\ pc' = "configError"
               /\ UNCHANGED <<options, rendererIdx>>
  /\ UNCHANGED << modules, util, argv, renderers, host, taskIdx, iteration, pending, local, stats,
                  skipped, savedImages, reportJson, reportMarkdown, log >>

\* Lines 360-361: renderer.prepare?.(context) is called and awaited.
PrepareCallNoAwait ==
  /\ pc = "prepare"
  /\ rendererIdx <= Len(renderers)
  /\ CurrentRenderer.prepare
  /\ pending' = pending \cup {NewCall("prepare")}
  /\ log' = [log EXCEPT !.calls = @ + 1, !.prepareCalls[rendererIdx] = @ + 1]
  /\ rendererIdx' = rendererIdx + 1
  /\ UNCHANGED << modules, util, argv, renderers, host, pc, options, taskIdx, iteration, local, stats,
                  skipped, savedImages, reportJson, reportMarkdown >>

PrepareCall ==
  /\ pc = "prepare"
  /\ rendererIdx <= Len(renderers)
  /\ CurrentRenderer.prepare
  /\ pending' = pending \cup {NewCall("prepare")}
  /\ log' = [log EXCEPT !.calls = @ + 1, !.prepareCalls[rendererIdx] = @ + 1]
  /\ pc' = "awaitPrepare"
  /\ UNCHANGED << modules, util, argv, renderers, host, options, taskIdx, rendererIdx, iteration, local,
                  stats, skipped, savedImages, reportJson, reportMarkdown >>

\* Line 361 for a renderer without prepare: the optional call yields undefined.
PrepareAbsent ==
  /\ pc = "prepare"
  /\ rendererIdx <= Len(renderers)
  /\ ~CurrentRenderer.prepare
  /\ rendererIdx' = rendererIdx + 1
  /\ UNCHANGED << modules, util, argv, renderers, host, pc, options, taskIdx, iteration, pending, local,
                  stats, skipped, savedImages, reportJson, reportMarkdown, log >>

\* The awaited prepare resolves: the loop goes on with the next renderer.
PrepareReturn ==
  /\ pc = "awaitPrepare"
  /\ "ok" \in InitOutcomes(modules, CurrentRenderer.name)
  /\ \E call \in pending :
       /\ call.op = "prepare"
       /\ pending' = pending \ {call}
       /\ log' = [log EXCEPT !.prepareReturned[call.renderer] = @ + 1]
  /\ modules' = AfterInit(modules, CurrentRenderer.name, "ok")
  /\ rendererIdx' = rendererIdx + 1
  /\ pc' = "prepare"
  /\ UNCHANGED << util, argv, renderers, host, options, taskIdx, iteration, local, stats,
                  skipped, savedImages, reportJson, reportMarkdown >>

\* The awaited prepare rejects, with an error of either kind (the loop has no
\* try around it): the error leaves the module, the process fails.
PrepareRaiseSkipsUnsupported ==
  /\ pc = "awaitPrepare"
  /\ \E call \in pending :
       /\ call.op = "prepare"
       /\ pending' = pending \ {call}
  /\ \E outcome \in InitOutcomes(modules, CurrentRenderer.name) \ {"ok"} :
       modules' = AfterInit(modules, CurrentRenderer.name, outcome)
  /\ \E kind \in host.failures :
       /\ log' = [log EXCEPT !.prepareRaised = Some(kind)]
       /\ IF kind = "unsupported"
            THEN /\ skipped' = Append(skipped, [renderer |-> CurrentRenderer.name,
                                                task |-> "prepare", reason |-> <<>>])
                 /\ rendererIdx' = rendererIdx + 1
                 /\ pc' = "prepare"
            ELSE /\ pc' = "failed"
                 /\ UNCHANGED <<skipped, rendererIdx>>
  /\ UNCHANGED << util, argv, renderers, host, options, taskIdx, iteration, local,
                  stats, savedImages, reportJson, reportMarkdown >>

PrepareRaise ==
  /\ pc = "awaitPrepare"
  /\ \E call \in pending :
       /\ call.op = "prepare"
       /\ pending' = pending \ {call}
  /\ \E outcome \in InitOutcomes(modules, CurrentRenderer.name) \ {"ok"} :
       modules' = AfterInit(modules, CurrentRenderer.name, outcome)
  /\ \E kind \in host.failures : log' = [log EXCEPT !.prepareRaised = Some(kind)]
  /\ pc' = "failed"
  /\ UNCHANGED << util, argv, renderers, host, options, taskIdx, rendererIdx, iteration, local,
                  stats, skipped, savedImages, reportJson, reportMarkdown >>

PrepareDoneAfterOneMoreRenderer ==
  /\ pc = "prepare"
  /\ rendererIdx > Len(renderers) + 1
  /\ taskIdx' = 1
  /\ rendererIdx' = 1
  /\ pc' = "suite"
  /\ UNCHANGED << modules, util, argv, renderers, host, options, iteration, pending, local, stats,
                  skipped, savedImages, reportJson, reportMarkdown, log >>

\* Lines 362-368: the prepare loop is over (mkdir of the save directory when
\* images are saved); the suite loop starts with the first task and renderer.
PrepareDone ==
  /\ pc = "prepare"
  /\ rendererIdx > Len(renderers)
  /\ taskIdx' = 1
  /\ rendererIdx' = 1
  /\ pc' = "suite"
  /\ UNCHANGED << modules, util, argv, renderers, host, options, iteration, pending, local, stats,
                  skipped, savedImages, reportJson, reportMarkdown, log >>

\* Lines 370-373 and 190: a case starts, runCase is entered.
CaseStart ==
  /\ pc = "suite"
  /\ taskIdx <= Len(Opts.tasks)
  /\ iteration' = 0
  /\ local' = LocalInit
  /\ log' = [log EXCEPT !.executed =
               Append(@, [task |-> taskIdx, renderer |-> rendererIdx, warm |-> 0,
                          meas |-> 0, returned |-> 0, unsupported |-> 0, fatal |-> 0,
                          kinds |-> {}, outputs |-> {}, trace |-> <<>>,
                          baseline |-> None, samples |-> {}, ending |-> None,
                          warmed |-> <<>>, measured |-> <<>>, threw |-> None])]
  /\ pc' = "warmup"
  /\ UNCHANGED << modules, util, argv, renderers, host, options, taskIdx, rendererIdx, pending, stats,
                  skipped, savedImages, reportJson, reportMarkdown >>

\* Lines 190-191: one warmup call of run is issued and awaited.
WarmupLoopOneMore == iteration <= Opts.warmup

WarmupLoop == iteration < Opts.warmup

WarmupCallNoAwait ==
  /\ pc = "warmup"
  /\ WarmupLoop
  /\ pending' = pending \cup {NewCall("run")}
  /\ log' = [log EXCEPT !.calls = @ + 1, !.executed[ThisCase].warm = @ + 1]
  /\ iteration' = iteration + 1
  /\ UNCHANGED << modules, util, argv, renderers, host, pc, options, taskIdx, rendererIdx, local,
                  stats, skipped, savedImages, reportJson, reportMarkdown >>

WarmupCall ==
  /\ pc = "warmup"
  /\ WarmupLoop
  /\ pending' = pending \cup {NewCall("run")}
  /\ log' = [log EXCEPT !.calls = @ + 1, !.executed[ThisCase].warm = @ + 1,
                        !.executed[ThisCase].trace = Append(@, "run")]
  /\ pc' = "awaitWarmup"
  /\ UNCHANGED << modules, util, argv, renderers, host, options, taskIdx, rendererIdx, iteration, local,
                  stats, skipped, savedImages, reportJson, reportMarkdown >>

\* Line 191: the warmup call returns; its result is dropped.
WarmupReturnOrTimeout ==
  /\ pc = "awaitWarmup"
  /\ iteration' = iteration + 1
  /\ pc' = "warmup"
  /\ UNCHANGED << modules, util, argv, renderers, host, options, taskIdx, rendererIdx, local, stats,
                  skipped, savedImages, reportJson, reportMarkdown, pending, log >>

WarmupReturn ==
  /\ pc = "awaitWarmup"
  /\ RunOutputs(CurrentRenderer.name, CurrentTask) # {}
  /\ \E call \in pending :
       /\ call.op = "run"
       /\ pending' = pending \ {call}
  /\ iteration' = iteration + 1
  /\ \E output \in RunOutputs(CurrentRenderer.name, CurrentTask) :
       log' = [log EXCEPT !.executed[ThisCase].returned = @ + 1,
                          !.executed[ThisCase].outputs = @ \cup {output},
                          !.executed[ThisCase].trace = Append(@, "returned"),
                          !.executed[ThisCase].warmed = Append(@, output)]
  /\ modules' = AfterRun(modules, CurrentRenderer.name, CurrentTask, "ok")
  /\ pc' = "warmup"
  /\ UNCHANGED << util, argv, renderers, host, options, taskIdx, rendererIdx, local, stats,
                  skipped, savedImages, reportJson, reportMarkdown >>

\* Lines 194-209: the warmup loop is over: gc when exposed, the baseline sample,
\* the locals of the measured loop.
BaselineOfFirstCase ==
  /\ pc = "warmup"
  /\ ~WarmupLoop
  /\ \E sample \in host.memory :
       LET earlier == { k \in 1..(ThisCase - 1) : log.executed[k].baseline # None }
           baseline == IF earlier = {} THEN sample
                       ELSE ValueOf(log.executed[CHOOSE k \in earlier : TRUE].baseline)
       IN /\ local' = MeasuredLocals(baseline)
          /\ log' = [log EXCEPT
                       !.gcCalls = IF host.gc THEN @ + 1 ELSE @,
                       !.executed[ThisCase].trace =
                          @ \o (IF host.gc THEN <<"gc">> ELSE <<>>) \o <<"baseline">>,
                       !.executed[ThisCase].baseline = Some(sample)]
  /\ iteration' = 0
  /\ pc' = "measure"
  /\ UNCHANGED << modules, util, argv, renderers, host, options, taskIdx, rendererIdx, pending, stats,
                  skipped, savedImages, reportJson, reportMarkdown >>

Baseline ==
  /\ pc = "warmup"
  /\ ~WarmupLoop
  /\ \E baseline \in host.memory :
       /\ local' = MeasuredLocals(baseline)
       /\ log' = [log EXCEPT
                    !.gcCalls = IF host.gc THEN @ + 1 ELSE @,
                    !.executed[ThisCase].trace =
                       @ \o (IF host.gc THEN <<"gc">> ELSE <<>>) \o <<"baseline">>,
                    !.executed[ThisCase].baseline = Some(baseline)]
  /\ iteration' = 0
  /\ pc' = "measure"
  /\ UNCHANGED << modules, util, argv, renderers, host, options, taskIdx, rendererIdx, pending, stats,
                  skipped, savedImages, reportJson, reportMarkdown >>

\* Lines 211-213: one measured call of run is issued and awaited.
MeasureCall ==
  /\ pc = "measure"
  /\ iteration < Opts.iterations
  /\ pending' = pending \cup {NewCall("run")}
  /\ log' = [log EXCEPT !.calls = @ + 1, !.executed[ThisCase].meas = @ + 1,
                        !.executed[ThisCase].trace = Append(@, "run")]
  /\ pc' = "awaitMeasure"
  /\ UNCHANGED << modules, util, argv, renderers, host, options, taskIdx, rendererIdx, iteration, local,
                  stats, skipped, savedImages, reportJson, reportMarkdown >>

\* Lines 213-232: the measured call returns an output after some latency; the
\* loop body records it and samples the memory.
MeasureReturn ==
  /\ pc = "awaitMeasure"
  /\ \E call \in pending :
       /\ call.op = "run"
       /\ pending' = pending \ {call}
  /\ \E output \in RunOutputs(CurrentRenderer.name, CurrentTask),
        latency \in host.latencies, memory \in host.memory :
       /\ local' = MeasuredStep(local, Opts, output, latency, memory)
       /\ log' = [log EXCEPT !.executed[ThisCase].returned = @ + 1,
                             !.executed[ThisCase].kinds = @ \cup {output.kind},
                             !.executed[ThisCase].outputs = @ \cup {output},
                             !.executed[ThisCase].trace = Append(@, "returned"),
                             !.executed[ThisCase].samples = @ \cup {memory},
                             !.executed[ThisCase].measured = Append(@, output)]
  /\ modules' = AfterRun(modules, CurrentRenderer.name, CurrentTask, "ok")
  /\ iteration' = iteration + 1
  /\ pc' = "measure"
  /\ UNCHANGED << util, argv, renderers, host, options, taskIdx, rendererIdx, stats, skipped,
                  savedImages, reportJson, reportMarkdown >>

\* Lines 388-397: run raised UnsupportedTaskError, in the warmup or in the
\* measured loop: it leaves runCase, the suite loop records the skip and
\* continues with the next case.
\* error.message of the UnsupportedTaskError: task, ": ", then the detail, which
\* is fixed text when the renderer rejects the task outright and otherwise
\* carries the message of the error the rendering library raised.
SkipReason(name, task, message) ==
  IF NeverSucceeds(name, task) THEN <<task, ": ", "not supported">>
  ELSE IF name \in TakumiRenderers THEN <<task, ": ">> \o message
  ELSE <<task, ": ", "failed to encode ", ImageFormat(name, task), ": ">> \o message

CatchUnsupportedDropsSkip(entries, name, task, message) == entries

CatchUnsupported(entries, name, task, message) ==
  Append(entries,
         [renderer |-> name, task |-> task, reason |-> SkipReason(name, task, message)])

RunRaiseUnsupportedKeepsGoing ==
  /\ pc \in {"awaitWarmup", "awaitMeasure"}
  /\ "unsupported" \in RunFailures(CurrentRenderer.name, CurrentTask)
  /\ \E call \in pending :
       /\ call.op = "run"
       /\ pending' = pending \ {call}
  /\ \E message \in host.messages :
       skipped' = CatchUnsupported(skipped, CurrentRenderer.name, CurrentTask, message)
  /\ log' = [log EXCEPT !.executed[ThisCase].unsupported = @ + 1,
                        !.skipCase = Append(@, ThisCase)]
  /\ iteration' = iteration + 1
  /\ pc' = IF pc = "awaitWarmup" THEN "warmup" ELSE "measure"
  /\ UNCHANGED << modules, util, argv, renderers, host, options, taskIdx, rendererIdx, local, stats,
                  savedImages, reportJson, reportMarkdown >>

RunRaiseUnsupported ==
  /\ pc \in {"awaitWarmup", "awaitMeasure"}
  /\ "unsupported" \in RunFailures(CurrentRenderer.name, CurrentTask)
  /\ \E call \in pending :
       /\ call.op = "run"
       /\ pending' = pending \ {call}
  /\ \E message \in host.messages :
       skipped' = CatchUnsupported(skipped, CurrentRenderer.name, CurrentTask, message)
  /\ \E thrown \in RunThrows(CurrentRenderer.name, CurrentTask) :
       /\ thrown.raises = "unsupported"
       /\ log' = [log EXCEPT !.executed[ThisCase].unsupported = @ + 1,
                             !.executed[ThisCase].trace = Append(@, "raised"),
                             !.executed[ThisCase].threw = Some(thrown.step),
                             !.skipCase = Append(@, ThisCase)]
  /\ modules' = AfterRun(modules, CurrentRenderer.name, CurrentTask, "ok")
  /\ local' = LocalInit
  /\ taskIdx' = AdvanceCase(taskIdx, rendererIdx)[1]
  /\ rendererIdx' = AdvanceCase(taskIdx, rendererIdx)[2]
  /\ pc' = "suite"
  /\ UNCHANGED << util, argv, renderers, host, options, iteration, stats, savedImages,
                  reportJson, reportMarkdown >>

\* Lines 398-400: run raised another error: it is rethrown and leaves the module.
CatchFatalContinues == "suite"

CatchFatal == "failed"

RunRaiseFatal ==
  /\ pc \in {"awaitWarmup", "awaitMeasure"}
  /\ "fatal" \in RunFailures(CurrentRenderer.name, CurrentTask)
  /\ \E call \in pending :
       /\ call.op = "run"
       /\ pending' = pending \ {call}
  /\ \E thrown \in RunThrows(CurrentRenderer.name, CurrentTask) :
       /\ thrown.raises = "fatal"
       /\ \E outcome \in InitOutcomes(modules, CurrentRenderer.name) :
            /\ thrown.step = "fonts" <=> outcome # "ok"
            /\ modules' = AfterRun(modules, CurrentRenderer.name, CurrentTask, outcome)
       /\ log' = [log EXCEPT !.executed[ThisCase].fatal = @ + 1,
                             !.executed[ThisCase].trace = Append(@, "raised"),
                             !.executed[ThisCase].threw = Some(thrown.step)]
  /\ local' = LocalInit
  /\ pc' = CatchFatal
  /\ IF CatchFatal = "failed"
       THEN UNCHANGED <<taskIdx, rendererIdx>>
       ELSE /\ taskIdx' = AdvanceCase(taskIdx, rendererIdx)[1]
            /\ rendererIdx' = AdvanceCase(taskIdx, rendererIdx)[2]
  /\ UNCHANGED << util, argv, renderers, host, options, iteration, stats, skipped, savedImages,
                  reportJson, reportMarkdown >>

\* Lines 234-256 and 374-387: the measured loop is over: gc when exposed, the
\* ending sample, the statistics; the suite loop appends them, saves the sample
\* when there is one, and continues with the next case.
PushStatsTwice(entries, entry) == Append(Append(entries, entry), entry)

PushStats(entries, entry) == Append(entries, entry)

CaseFinish ==
  /\ pc = "measure"
  /\ iteration >= Opts.iterations
  /\ \E ending \in host.memory :
       /\ stats' = PushStats(stats,
                             CaseStats(CurrentTask, CurrentRenderer.name, Opts, local, ending))
       /\ log' = [log EXCEPT
                    !.statsCase = Append(@, ThisCase),
                    !.gcCalls = IF host.gc THEN @ + 1 ELSE @,
                    !.executed[ThisCase].trace =
                       @ \o (IF host.gc THEN <<"gc">> ELSE <<>>) \o <<"ending">>,
                    !.executed[ThisCase].ending = Some(ending)]
  /\ savedImages' =
       IF Opts.saveImages /\ local.sample # None
         THEN Append(savedImages,
                     SavedImage(CurrentTask, CurrentRenderer.name, ValueOf(local.sample)))
         ELSE savedImages
  /\ local' = LocalInit
  /\ taskIdx' = AdvanceCase(taskIdx, rendererIdx)[1]
  /\ rendererIdx' = AdvanceCase(taskIdx, rendererIdx)[2]
  /\ pc' = "suite"
  /\ UNCHANGED << modules, util, argv, renderers, host, options, iteration, pending, skipped,
                  reportJson, reportMarkdown >>

\* Lines 405-426: the suite loop is over: reportJson refers to the three arrays,
\* the Markdown report is built from them, and then the JSON report is
\* serialised from what the arrays hold, and both are written.
WriteReports ==
  /\ pc = "suite"
  /\ taskIdx > Len(Opts.tasks)
  /\ reportMarkdown' = Some(buildMarkdownReport(Opts, stats, skipped, savedImages))
  /\ stats' = StatsAfterMarkdown(Opts, stats)
  /\ skipped' = SkippedAfterMarkdown(skipped)
  /\ savedImages' = SavedImagesAfterMarkdown(savedImages)
  /\ reportJson' = Some(ReportJson(Opts, stats', skipped', savedImages'))
  /\ pc' = "done"
  /\ UNCHANGED << modules, util, argv, renderers, host, options, taskIdx, rendererIdx, iteration,
                  pending, local, log >>

Next ==
  \/ ParseCliOptions
  \/ PrepareCall
  \/ PrepareAbsent
  \/ PrepareReturn
  \/ PrepareRaise
  \/ PrepareDone
  \/ CaseStart
  \/ WarmupCall
  \/ WarmupReturn
  \/ Baseline
  \/ MeasureCall
  \/ MeasureReturn
  \/ RunRaiseUnsupported
  \/ RunRaiseFatal
  \/ CaseFinish
  \/ WriteReports

\* ---------------------------------------------------------- specifications

\* The registries a run is checked with: the windows of at most MaxRenderers
\* consecutive renderers of the shipped registry.
RegistryWindows ==
  { SubSeq(benchRenderers, s, s + n - 1) :
      <<s, n>> \in { w \in (1..Len(benchRenderers)) \X (1..MaxRenderers) :
                       w[1] + w[2] - 1 <= Len(benchRenderers) } }

\* --workload values: one task; two tasks with blanks and an empty item; the
\* option given twice with the same task; an unknown name; only blanks.
SuiteWorkloads ==
  { Some(<< <<"encode-svg">> >>),
    Some(<< <<"text-layout", ",", " ", "encode-svg", ",">> >>),
    Some(<< <<"encode-webp">>, <<"encode-webp">> >>),
    Some(<< <<"encode-png", ",", "bogus">> >>),
    Some(<< <<" ", ",">> >>) }

SuiteWarmups == { Some(<<"1">>), Some(<<"0">>) }

SuiteIterations == { Some(<<"2">>), Some(<<"1">>), Some(<<"-", "1">>), Some(<<"x">>) }

SuiteArgs ==
  [ workload : SuiteWorkloads, warmup : SuiteWarmups, iterations : SuiteIterations,
    saveImages : BOOLEAN ]

\* A host whose clock shows two latencies and whose memory does not move.
SuiteHost ==
  [ gc |-> TRUE,
    latencies |-> { Rat(1, 3), Rat(2, 3) },
    memory |-> { [rss |-> 40000000, heapUsed |-> 8000000] },
    sizes |-> { 2048 },
    metrics |-> { Rat(100, 1) },
    failures |-> { "unsupported", "fatal" },
    messages |-> { <<"unsupported", "|", "format">> },
    mantissa |-> 0,
    canvas |-> "toBuffer" ]

Init == InitWith(SuiteArgs, RegistryWindows, {SuiteHost})

Spec == Init /\ [][Next]_vars

\* Single-case runs: one renderer, one workload, every warmup and iteration
\* count up to the bounds, on hosts whose clock, memory or output sizes vary.
CaseArgs ==
  [ workload : { Some(<< <<"text-layout">> >>), Some(<< <<"encode-png">> >>) },
    warmup : { Some(<<Digits[n + 1]>>) : n \in 1..MaxWarmup },
    iterations : { Some(<<Digits[n + 1]>>) : n \in 1..MaxIterations },
    saveImages : BOOLEAN ]

CaseRegistries == { <<benchRenderers[i]>> : i \in {1, 3, 6} }

ClockHost ==
  [ gc |-> FALSE,
    latencies |-> { Rat(0, 1), Rat(1, 3), Rat(5, 2) },
    memory |-> { [rss |-> 40000000, heapUsed |-> 8000000] },
    sizes |-> { 2048 },
    metrics |-> { Rat(100, 1) },
    failures |-> { "unsupported", "fatal" },
    messages |-> { <<"unsupported", "|", "format">> },
    mantissa |-> 0,
    canvas |-> "toBuffer" ]

MemoryHost ==
  [ gc |-> TRUE,
    latencies |-> { Rat(1, 3) },
    memory |-> { [rss |-> 40000000, heapUsed |-> 8000000],
                 [rss |-> 40300000, heapUsed |-> 7900000],
                 [rss |-> 39800000, heapUsed |-> 8200000] },
    sizes |-> { 2048 },
    metrics |-> { Rat(100, 1) },
    failures |-> { "unsupported", "fatal" },
    messages |-> { <<"unsupported", "|", "format">> },
    mantissa |-> 0,
    canvas |-> "toBuffer" ]

OutputHost ==
  [ gc |-> TRUE,
    latencies |-> { Rat(1, 3) },
    memory |-> { [rss |-> 40000000, heapUsed |-> 8000000] },
    sizes |-> { 1000, 3000 },
    metrics |-> { Rat(100, 1), Rat(201, 2), Rat(3, 32) },
    failures |-> { "unsupported", "fatal" },
    messages |-> { <<"unsupported", "|", "format">> },
    mantissa |-> 0,
    canvas |-> "toBuffer" ]

InitCase == InitWith(CaseArgs, CaseRegistries, {ClockHost, MemoryHost, OutputHost})

SpecCase == InitCase /\ [][Next]_vars

\* Every shipped renderer alone with every workload alone, one warmup and one or
\* two measured iterations, on a host whose backends return outputs of two sizes.
BackendArgs ==
  [ workload : { Some(<< <<ALL_TASKS[i]>> >>) : i \in 1..Len(ALL_TASKS) },
    warmup : { Some(<<"1">>) },
    iterations : { Some(<<"1">>), Some(<<"2">>) },
    saveImages : BOOLEAN ]

BackendRegistries == { <<benchRenderers[i]>> : i \in 1..Len(benchRenderers) }

BackendHost ==
  [ gc |-> TRUE,
    latencies |-> { Rat(1, 3) },
    memory |-> { [rss |-> 40000000, heapUsed |-> 8000000] },
    sizes |-> { 1000, 3000 },
    metrics |-> { Rat(100, 1), Rat(3, 32) },
    failures |-> { "unsupported", "fatal" },
    messages |-> { <<"unsupported", "|", "format">> },
    mantissa |-> 0,
    canvas |-> "toBuffer" ]

\* The skia canvas has toBuffer, or only the png promise, or neither.
BackendHosts == { [BackendHost EXCEPT !.canvas = c] : c \in {"toBuffer", "png", "none"} }

InitBackends == InitWith(BackendArgs, BackendRegistries, BackendHosts)

SpecBackends == InitBackends /\ [][Next]_vars

\* Runs of two cases (two renderers with one workload, or one renderer with two
\* workloads) on hosts whose memory moves between samples, with and without gc.
MemoryArgs ==
  [ workload : { Some(<< <<"text-layout", ",", "encode-png">> >>) },
    warmup : { Some(<<"1">>) },
    iterations : { Some(<<"1">>), Some(<<"2">>) },
    saveImages : { FALSE } ]

MemoryArgsOneTask ==
  [ workload : { Some(<< <<"text-layout">> >>) },
    warmup : { Some(<<"1">>) },
    iterations : { Some(<<"1">>), Some(<<"2">>) },
    saveImages : { FALSE } ]

MemoryHostNoGc == [MemoryHost EXCEPT !.gc = FALSE]

InitMemory ==
  \/ InitWith(MemoryArgs, { <<benchRenderers[1]>> }, {MemoryHost, MemoryHostNoGc})
  \/ InitWith(MemoryArgsOneTask, { <<benchRenderers[2], benchRenderers[3]>> },
              {MemoryHost, MemoryHostNoGc})

SpecMemory == InitMemory /\ [][Next]_vars

\* The shipped registry with every workload, in the declared order (no workload
\* requested) or in the reverse order, one warmup and one measured iteration,
\* on a host where nothing fails and on one where loading, drawing, measuring
\* and rendering can fail.
ShippedArgs ==
  [ workload : { None,
                 Some(<< << "encode-svg", ",", "encode-webp", ",", "encode-png", ",",
                            "text-layout", ",", "kitchen-sink", ",", "image-stream", ",",
                            "image-buffer" >> >>) },
    warmup : { Some(<<"1">>) },
    iterations : { Some(<<"1">>) },
    saveImages : BOOLEAN ]

SoundHost == [SuiteHost EXCEPT !.latencies = { Rat(1, 3) }, !.failures = {}]

FailingHost == [SuiteHost EXCEPT !.latencies = { Rat(1, 3) }, !.failures = {"fatal"}]

InitShipped == InitWith(ShippedArgs, {benchRenderers}, {SoundHost, FailingHost})

SpecShipped == InitShipped /\ [][Next]_vars

\* Runs in which the main module keeps executing and every backend call that
\* was issued eventually returns or raises, with the shipped registry and every
\* workload. The synchronous steps of main run to completion (weak fairness of
\* each); an awaited prepare or run call settles (weak fairness of its returns
\* and raises together). parseCliOptions and the writing of the reports are
\* total, so they are enabled exactly where their guards hold, and their weak
\* fairness is stated with the guard in place of ENABLED.
ParseCliOptionsEnabled == pc = "parse"

WriteReportsEnabled == pc = "suite" /\ taskIdx > Len(Opts.tasks)

MainKeepsRunning ==
  /\ []<>(~ParseCliOptionsEnabled) \/ []<><<ParseCliOptionsEnabled /\ pc' # pc>>_vars
  /\ WF_vars(PrepareCall)
  /\ WF_vars(PrepareAbsent)
  /\ WF_vars(PrepareDone)
  /\ WF_vars(CaseStart)
  /\ WF_vars(WarmupCall)
  /\ WF_vars(Baseline)
  /\ WF_vars(MeasureCall)
  /\ WF_vars(CaseFinish)
  /\ []<>(~WriteReportsEnabled) \/ []<><<WriteReportsEnabled /\ pc' # pc>>_vars

EveryCallSettles ==
  /\ WF_vars(PrepareReturn \/ PrepareRaise)
  /\ WF_vars(WarmupReturn \/ MeasureReturn \/ RunRaiseUnsupported \/ RunRaiseFatal)

InitLive == InitShipped

SpecLive == InitLive /\ [][Next]_vars /\ MainKeepsRunning /\ EveryCallSettles

\* Direct calls of mean and percentile, on a host whose numbers have FloatBits
\* significand bits.  A call's array holds numbers of that format: any array
\* of at most MaxLen of three of them, or for percentile n <= MaxRamp distinct
\* values in descending order.
MeanCall ==
  /\ util.fn = "mean"
  /\ ~util.returned
  /\ util' = [util EXCEPT !.returned = TRUE, !.result = mean(util.values)]
  /\ UNCHANGED << modules, argv, renderers, host, pc, options, taskIdx, rendererIdx, iteration,
                  pending, local, stats, skipped, savedImages, reportJson, reportMarkdown,
                  log >>

PercentileCall ==
  /\ util.fn = "percentile"
  /\ ~util.returned
  /\ util' = [util EXCEPT !.returned = TRUE,
                          !.result = percentile(util.values, util.fraction),
                          !.values = ArrayAfterPercentile(util.values)]
  /\ UNCHANGED << modules, argv, renderers, host, pc, options, taskIdx, rendererIdx, iteration,
                  pending, local, stats, skipped, savedImages, reportJson, reportMarkdown,
                  log >>

NextUtils == MeanCall \/ PercentileCall

UtilNumbers == { Rat(1, 4), Rat(1, 1), Rat(15, 1) }

\* The i-th smallest value of a ramp: i, or past 2^FloatBits the even number
\* 2i - 2^FloatBits, so that every value is a number of the host's format.
RampValue(i) == IF i <= Pow2(FloatBits) THEN i ELSE 2 * i - Pow2(FloatBits)

Ramp(n) == [i \in 1..n |-> Rat(RampValue(n + 1 - i), 1)]

UtilArrays == UNION { [1..n -> UtilNumbers] : n \in 0..MaxLen }

UtilRamps == { Ramp(n) : n \in 1..MaxRamp }

UtilFractions ==
  { Rat(0 - 1, 2), Rat(0, 1), Rat(1, 2), Rat(95, 100), Rat(1, 1), Rat(3, 2) }

UtilsHost ==
  [ gc |-> FALSE, latencies |-> {}, memory |-> {}, sizes |-> {}, metrics |-> {},
    failures |-> {}, messages |-> {}, mantissa |-> FloatBits, canvas |-> "toBuffer" ]

InitUtils ==
  /\ argv = [workload |-> None, warmup |-> None, iterations |-> None, saveImages |-> FALSE]
  /\ renderers = benchRenderers
  /\ host = UtilsHost
  /\ pc = "parse"
  /\ options = None
  /\ taskIdx = 0
  /\ rendererIdx = 0
  /\ iteration = 0
  /\ pending = {}
  /\ local = LocalInit
  /\ stats = <<>>
  /\ skipped = <<>>
  /\ savedImages = <<>>
  /\ reportJson = None
  /\ reportMarkdown = None
  /\ log = LogInit
  /\ modules = ModulesInit
  /\ \/ \E values \in UtilArrays :
          util = [ fn |-> "mean", returned |-> FALSE, input |-> values, values |-> values,
                   fraction |-> Rat(0, 1), result |-> Rat(0, 1) ]
     \/ \E values \in UtilArrays \cup UtilRamps, fraction \in UtilFractions :
          util = [ fn |-> "percentile", returned |-> FALSE, input |-> values,
                   values |-> values, fraction |-> fraction, result |-> Rat(0, 1) ]

SpecUtils == InitUtils /\ [][NextUtils]_vars

\* Direct calls of parseTasks: --workload absent, given once with a value of at
\* most MaxLen words, commas and blanks, or given twice with values of at most
\* one of them.  The words are two task names and two names that are not.
ParseTasksCall ==
  /\ util.fn = "parseTasks"
  /\ ~util.returned
  /\ util' = [util EXCEPT !.returned = TRUE, !.result = parseTasks(util.input)]
  /\ UNCHANGED << modules, argv, renderers, host, pc, options, taskIdx, rendererIdx, iteration,
                  pending, local, stats, skipped, savedImages, reportJson, reportMarkdown,
                  log >>

NextParse == ParseTasksCall

WorkloadPieces == { "encode-png", "text-layout", "Encode-PNG", "bogus", ",", " " }

WorkloadStrings(n) == UNION { [1..k -> WorkloadPieces] : k \in 0..n }

WorkloadValues ==
  {None} \cup { Some(<<str>>) : str \in WorkloadStrings(MaxLen) }
         \cup { Some(<<a, b>>) : a \in WorkloadStrings(1), b \in WorkloadStrings(1) }

InitParse ==
  /\ argv = [workload |-> None, warmup |-> None, iterations |-> None, saveImages |-> FALSE]
  /\ renderers = benchRenderers
  /\ host = UtilsHost
  /\ pc = "parse"
  /\ options = None
  /\ taskIdx = 0
  /\ rendererIdx = 0
  /\ iteration = 0
  /\ pending = {}
  /\ local = LocalInit
  /\ stats = <<>>
  /\ skipped = <<>>
  /\ savedImages = <<>>
  /\ reportJson = None
  /\ reportMarkdown = None
  /\ log = LogInit
  /\ modules = ModulesInit
  /\ \E value \in WorkloadValues :
       util = [ fn |-> "parseTasks", returned |-> FALSE, input |-> value, values |-> <<>>,
                fraction |-> Rat(0, 1), result |-> Rat(0, 1) ]

SpecParse == InitParse /\ [][NextParse]_vars

\* Direct calls of the backends: any sequence of at most MaxCalls prepare and
\* run calls on the shipped renderers, each call's initialisation succeeding or
\* throwing as the module state allows.  run is called with encode-png, and on
\* the satori variants also with encode-webp.
BackendCall ==
  /\ util.fn = "backend"
  /\ Len(util.history) < MaxCalls
  /\ \E i \in 1..Len(renderers), op \in {"prepare", "run"}, task \in {"encode-png", "encode-webp"} :
       LET name == renderers[i].name
           inits == op = "prepare" \/ RunInits(name, task)
       IN /\ op = "prepare" => (renderers[i].prepare /\ task = "encode-png")
          /\ task = "encode-webp" => ModuleOf(name) = "satori"
          /\ \E outcome \in (IF inits THEN InitOutcomes(modules, name) ELSE {"ok"}) :
               /\ modules' = IF inits THEN AfterInit(modules, name, outcome) ELSE modules
               /\ util' = [util EXCEPT !.history =
                              Append(@, [renderer |-> name, op |-> op, task |-> task,
                                         inits |-> inits, outcome |-> outcome])]
  /\ UNCHANGED << argv, renderers, host, pc, options, taskIdx, rendererIdx, iteration,
                  pending, local, stats, skipped, savedImages, reportJson, reportMarkdown,
                  log >>

NextModules == BackendCall

InitModules ==
  /\ argv = [workload |-> None, warmup |-> None, iterations |-> None, saveImages |-> FALSE]
  /\ renderers = benchRenderers
  /\ host = UtilsHost
  /\ pc = "parse"
  /\ options = None
  /\ taskIdx = 0
  /\ rendererIdx = 0
  /\ iteration = 0
  /\ pending = {}
  /\ local = LocalInit
  /\ stats = <<>>
  /\ skipped = <<>>
  /\ savedImages = <<>>
  /\ reportJson = None
  /\ reportMarkdown = None
  /\ log = LogInit
  /\ modules = ModulesInit
  /\ util = [fn |-> "backend", history |-> <<>>]

SpecModules == InitModules /\ [][NextModules]_vars

\* ------------------------------------------------------- history shorthands

Cases == 1..Len(log.executed)

CaseTask(k) == Opts.tasks[log.executed[k].task]

CaseRenderer(k) == renderers[log.executed[k].renderer].name

\* Every run call made in case k raised UnsupportedTaskError.
CaseOnlyUnsupported(k) ==
  /\ log.executed[k].unsupported >= 1
  /\ log.executed[k].returned = 0
  /\ log.executed[k].fatal = 0

\* The cases of the pair (renderer name, task name).
CasesOfPair(name, task) == { k \in Cases : CaseRenderer(k) = name /\ CaseTask(k) = task }

\* run raised UnsupportedTaskError on every call made for the pair.
PairOnlyUnsupported(name, task) ==
  /\ CasesOfPair(name, task) # {}
  /\ \A k \in CasesOfPair(name, task) : CaseOnlyUnsupported(k)

SkipsOfPair(name, task) ==
  { i \in 1..Len(skipped) : skipped[i].renderer = name /\ skipped[i].task = task }

StatsOfPair(name, task) ==
  { i \in 1..Len(stats) : stats[i].renderer = name /\ stats[i].task = task }

Occurrences(task) == { i \in 1..Len(Opts.tasks) : Opts.tasks[i] = task }

RendererNames == { renderers[i].name : i \in 1..Len(renderers) }

\* Every (requested workload, renderer) case was executed: run was called in it.
AllCasesExecuted ==
  \A t \in 1..Len(Opts.tasks), r \in 1..Len(renderers) :
    \E k \in Cases :
      /\ log.executed[k].task = t
      /\ log.executed[k].renderer = r
      /\ log.executed[k].warm >= 1

\* Two renderers, one workload, the first raising Unsupported, the second succeeding.
TwoBackendScenario ==
  /\ Len(renderers) = 2
  /\ Len(Opts.tasks) = 1
  /\ Len(log.executed) = 2
  /\ CaseOnlyUnsupported(1)
  /\ log.executed[2].unsupported = 0

TwoBackendOutcome ==
  /\ Len(skipped) = 1
  /\ skipped[1].renderer = renderers[1].name
  /\ Len(stats) = 1
  /\ stats[1].renderer = renderers[2].name

\* ------------------------------------------------------------------ claims

\* C1 as stated: in a completed suite run, a (backend, workload) pair whose run
\* raises UnsupportedTaskError on every call has exactly one skip record and no
\* statistics entry, every other pair is still executed, and in the two-backend
\* scenario the skip list is <<first>> and the statistics list <<second>>.
C1_OneSkipPerPair ==
  pc = "done" =>
    /\ \A name \in RendererNames, task \in Range(Opts.tasks) :
         PairOnlyUnsupported(name, task) =>
           /\ Cardinality(SkipsOfPair(name, task)) = 1
           /\ StatsOfPair(name, task) = {}
    /\ AllCasesExecuted
    /\ TwoBackendScenario => TwoBackendOutcome

\* C1 amended: the pair has one skip record for each time the workload was
\* requested (the same workload requested twice is executed twice), hence
\* exactly one when the workload is requested once; the rest as stated.
C1_OneSkipPerRequestedOccurrence ==
  pc = "done" =>
    /\ \A name \in RendererNames, task \in Range(Opts.tasks) :
         PairOnlyUnsupported(name, task) =>
           /\ Cardinality(SkipsOfPair(name, task)) = Cardinality(Occurrences(task))
           /\ StatsOfPair(name, task) = {}
    /\ AllCasesExecuted
    /\ TwoBackendScenario => TwoBackendOutcome

C1_Witness ==
  /\ pc = "done"
  /\ TwoBackendScenario
  /\ TwoBackendOutcome
  /\ PairOnlyUnsupported(renderers[1].name, Opts.tasks[1])

\* Some run call raised an error that is not an UnsupportedTaskError.
FatalRaised == \E k \in Cases : log.executed[k].fatal > 0

\* C2: once a run call has raised a non-Unsupported error, no further backend
\* call is issued, no further case is started, and neither report is written.
C2_FatalAbortsSuite ==
  /\ [](FatalRaised => reportJson = None /\ reportMarkdown = None)
  /\ [][FatalRaised =>
          /\ log'.calls = log.calls
          /\ log'.executed = log.executed
          /\ reportJson' = None
          /\ reportMarkdown' = None]_vars

C2_Witness ==
  /\ FatalRaised
  /\ pc = "failed"
  /\ Len(stats) >= 1
  /\ Len(log.executed) < Len(Opts.tasks) * Len(renderers)

\* C3: the k-th case executed is the k-th of the workload-major, backend-minor
\* enumeration of options.tasks x registry, and the statistics list and the skip
\* list each hold their cases in execution order.
C3_ExecutionOrder ==
  /\ \A k \in Cases :
       /\ log.executed[k].task = ((k - 1) \div Len(renderers)) + 1
       /\ log.executed[k].renderer = ((k - 1) % Len(renderers)) + 1
  /\ Len(stats) = Len(log.statsCase)
  /\ Len(skipped) = Len(log.skipCase)
  /\ \A i \in 1..Len(stats) :
       /\ stats[i].task = CaseTask(log.statsCase[i])
       /\ stats[i].renderer = CaseRenderer(log.statsCase[i])
       /\ \A j \in 1..Len(stats) : i < j => log.statsCase[i] < log.statsCase[j]
  /\ \A i \in 1..Len(skipped) :
       /\ skipped[i].task = CaseTask(log.skipCase[i])
       /\ skipped[i].renderer = CaseRenderer(log.skipCase[i])
       /\ \A j \in 1..Len(skipped) : i < j => log.skipCase[i] < log.skipCase[j]

C3_Witness ==
  /\ pc = "done"
  /\ Len(Opts.tasks) = 2
  /\ Len(renderers) = 2
  /\ Len(stats) = 3
  /\ Len(skipped) = 1
  /\ log.skipCase = <<3>>

\* C4: at most one backend prepare or run call is in flight at any time.
C4_OneCallInFlight == Cardinality(pending) <= 1

C4_Witness ==
  /\ log.calls >= 3
  /\ \E call \in pending : call.op = "run" /\ call.id = log.calls

\* C5: a renderer's prepare is never invoked more than once, never for a renderer
\* without prepare, and whenever run has been called on a renderer that defines
\* prepare (and when the suite is done), its prepare was invoked exactly once and
\* had returned.
PreparedOnce(r) ==
  renderers[r].prepare => log.prepareCalls[r] = 1 /\ log.prepareReturned[r] = 1

C5_PrepareOnceBeforeRun ==
  /\ \A r \in 1..Len(renderers) :
       /\ log.prepareCalls[r] <= (IF renderers[r].prepare THEN 1 ELSE 0)
       /\ log.prepareReturned[r] <= log.prepareCalls[r]
  /\ \A k \in Cases : PreparedOnce(log.executed[k].renderer)
  /\ pc \in {"suite", "warmup", "awaitWarmup", "measure", "awaitMeasure", "done"} =>
       \A r \in 1..Len(renderers) : PreparedOnce(r)

C5_Witness ==
  /\ Len(renderers) = 2
  /\ renderers[2].prepare
  /\ \E k \in Cases : log.executed[k].renderer = 2 /\ log.executed[k].warm >= 1
  /\ log.prepareCalls[2] = 1

\* The integer a string of the form [-]digits denotes.
IsDecimal(chars) ==
  LET body == IF chars # <<>> /\ Head(chars) = "-" THEN Tail(chars) ELSE chars
  IN body # <<>> /\ \A i \in 1..Len(body) : IsDigit(body[i])

DecimalValue(chars) ==
  IF Head(chars) = "-" THEN 0 - ParseDigits(Tail(chars), 0) ELSE ParseDigits(chars, 0)

\* A count given on the command line that is zero or negative.
NonPositiveCount(arg) ==
  arg # None /\ IsDecimal(ValueOf(arg)) /\ DecimalValue(ValueOf(arg)) <= 0

\* A --workload value with a word that is not a workload name.
UnknownWorkload(arg) ==
  /\ arg # None
  /\ \E i \in 1..Len(ValueOf(arg)) :
       \E j \in 1..Len(ValueOf(arg)[i]) :
         ValueOf(arg)[i][j] \notin {",", " "} \cup Range(ALL_TASKS)

\* C9: with an unknown workload name, or a zero or negative warmup or iteration
\* count, the run ends in a configuration error with no backend call issued and
\* no case started.
C9_BadConfigRejectedFirst ==
  (UnknownWorkload(argv.workload) \/ NonPositiveCount(argv.warmup)
     \/ NonPositiveCount(argv.iterations)) =>
    /\ pc \in {"parse", "configError"}
    /\ options = None
    /\ log.calls = 0
    /\ log.executed = <<>>
    /\ pending = {}

C9_Witness ==
  /\ pc = "configError"
  /\ NonPositiveCount(argv.warmup)
  /\ ~UnknownWorkload(argv.workload)
  /\ ~NonPositiveCount(argv.iterations)
  /\ parseTasks(argv.workload).ok

CountIn(seq, x) == Cardinality({ i \in 1..Len(seq) : seq[i] = x })

\* The table lines of the statistics entries of a task, in execution order.
LinesOfTask(task) ==
  LET own == SelectSeqBy(stats, { i \in 1..Len(stats) : stats[i].task = task })
  IN [i \in 1..Len(own) |-> RowLine(own[i])]

\* C10: in the written Markdown report the i-th section is that of the i-th
\* requested workload; its rows are exactly the statistics entries of that
\* workload, in non-decreasing avgMs; it carries "No successful runs." exactly
\* when there is none; the skip records and the saved-image records are listed
\* in sections of their own.
C10_ReportGroupsByWorkload ==
  pc = "done" =>
    LET md == ValueOf(reportMarkdown)
    IN /\ Len(md.tasks) = Len(Opts.tasks)
       /\ \A i \in 1..Len(md.tasks) :
            LET sec == md.tasks[i]
                want == LinesOfTask(Opts.tasks[i])
            IN /\ sec.heading = <<"##", Opts.tasks[i]>>
               /\ Len(sec.rows) = Len(want)
               /\ \A x \in Range(want) \cup Range(sec.rows) :
                    CountIn(sec.rows, x) = CountIn(want, x)
               /\ \A a, b \in 1..Len(sec.rows) :
                    a < b => RatLe(sec.rows[a].avgMs, sec.rows[b].avgMs)
               /\ (sec.note = << "No successful runs." >>) <=> (Len(want) = 0)
               /\ sec.note = <<>> <=> (Len(want) > 0)
       /\ md.skipped = (IF skipped = <<>> THEN <<>>
                        ELSE << [ heading |-> <<"##", "Unsupported / Skipped">>,
                                  lines |-> [i \in 1..Len(skipped) |->
                                              SkipLine(skipped[i])] ] >>)
       /\ md.savedImages = (IF savedImages = <<>> THEN <<>>
                            ELSE << [ heading |-> <<"##", "Saved Images">>,
                                      lines |-> [i \in 1..Len(savedImages) |->
                                                  ImageLine(savedImages[i])] ] >>)

C10_Witness ==
  /\ pc = "done"
  /\ \E i \in 1..Len(Opts.tasks) : ValueOf(reportMarkdown).tasks[i].note # <<>>
  /\ \E i, j \in 1..Len(stats) :
       i < j /\ stats[i].task = stats[j].task /\ RatLt(stats[j].avgMs, stats[i].avgMs)
  /\ skipped # <<>>

\* The case being executed is in its measured loop.
Measuring == pc \in {"measure", "awaitMeasure"}

\* C6: a case makes at most W warmup calls and no measured call before all W
\* have returned; a case that ends with statistics made exactly W warmup and N
\* measured calls; the measured loop starts from empty sequences, peaks at the
\* baseline and no sample, and its sequences hold one entry per measured call
\* that has returned, so nothing of a warmup call is in them.
C6_WarmupThenMeasured ==
  /\ \A k \in Cases :
       /\ log.executed[k].warm <= Opts.warmup
       /\ log.executed[k].meas <= Opts.iterations
       /\ log.executed[k].meas > 0 => log.executed[k].warm = Opts.warmup
  /\ \A i \in 1..Len(log.statsCase) :
       LET c == log.executed[log.statsCase[i]]
       IN /\ c.warm = Opts.warmup
          /\ c.meas = Opts.iterations
          /\ c.returned = Opts.warmup + Opts.iterations
  /\ Measuring =>
       LET c == log.executed[ThisCase]
       IN /\ Len(local.times) = c.returned - Opts.warmup
          /\ Len(local.outputs) = c.returned - Opts.warmup
          /\ c.returned = Opts.warmup =>
               /\ local.sample = None
               /\ local.rssPeak = local.baseline.rss
               /\ local.heapPeak = local.baseline.heapUsed
  /\ ~Measuring => local.times = <<>> /\ local.outputs = <<>> /\ local.sample = None

C6_Witness ==
  /\ pc = "done"
  /\ Len(stats) = 1
  /\ Opts.warmup = 2
  /\ Opts.iterations = 3
  /\ log.executed[1].warm = 2
  /\ log.executed[1].meas = 3

C8_PeaksMonotonic ==
  /\ [](/\ Measuring =>
             /\ local.rssPeak >= local.baseline.rss
             /\ local.heapPeak >= local.baseline.heapUsed
        /\ \A i \in 1..Len(stats) :
             /\ stats[i].rssPeakDeltaMb.n >= 0
             /\ stats[i].heapPeakDeltaMb.n >= 0)
  /\ [][(Measuring /\ Measuring') =>
          /\ local'.rssPeak >= local.rssPeak
          /\ local'.heapPeak >= local.heapPeak]_vars

C8_Witness ==
  /\ Len(stats) = 1
  /\ stats[1].rssPeakDeltaMb.n > 0
  /\ stats[1].heapPeakDeltaMb.n = 0
  /\ stats[1].heapEndDeltaMb.n < 0

\* The reason read back from a line of the skipped table: "\\|" stands for "|".
ReasonOfLine(line) ==
  [i \in 1..Len(line.reason) |-> IF line.reason[i] = "\\|" THEN "|" ELSE line.reason[i]]

\* C11: when the suite is done, one skip record was accumulated for each case
\* that ended in UnsupportedTaskError, with that case's renderer and task and a
\* reason; the JSON report's skipped list is that list, and the Markdown report
\* has a skipped table with one line per record, in order, carrying the
\* record's renderer, task and reason.
C11_SkipsReported ==
  pc = "done" =>
    /\ Len(skipped) = Len(log.skipCase)
    /\ \A k \in Cases :
         log.executed[k].unsupported > 0 => \E i \in 1..Len(skipped) : log.skipCase[i] = k
    /\ \A i \in 1..Len(skipped) :
         /\ skipped[i].renderer = CaseRenderer(log.skipCase[i])
         /\ skipped[i].task = CaseTask(log.skipCase[i])
         /\ Len(skipped[i].reason) >= 3
    /\ ValueOf(reportJson).skipped = skipped
    /\ skipped # <<>> =>
         /\ Len(ValueOf(reportMarkdown).skipped) = 1
         /\ LET lines == ValueOf(reportMarkdown).skipped[1].lines
            IN /\ Len(lines) = Len(skipped)
               /\ \A i \in 1..Len(skipped) :
                    /\ lines[i].renderer = skipped[i].renderer
                    /\ lines[i].task = skipped[i].task
                    /\ ReasonOfLine(lines[i]) = skipped[i].reason

C11_Witness ==
  /\ pc = "done"
  /\ Len(skipped) >= 2
  /\ Len(stats) >= 1
  /\ \E i \in 1..Len(skipped) : "|" \in Range(skipped[i].reason)
  /\ \E i \in 1..Len(skipped) : "|" \notin Range(skipped[i].reason)
  /\ ValueOf(reportJson).skipped = skipped
  /\ Len(ValueOf(reportMarkdown).skipped[1].lines) = Len(skipped)

\* A step in which a case ends with statistics after every measured call
\* returned a Metric result with the same value.
MetricCaseEnds ==
  /\ pc = "measure"
  /\ Len(stats') = Len(stats) + 1
  /\ Len(local.outputs) = Opts.iterations
  /\ log.executed[ThisCase].kinds = {"metric"}
  /\ \A i \in 1..Len(local.outputs) : local.outputs[i] = local.outputs[1]

\* C12 as stated: the statistics entry of such a case has iterations = N,
\* warmup = W, outputKind "metric", outputUnit "value", outputAverage = v and
\* avgMs >= 0.
C12_MetricCaseStatistics ==
  [][MetricCaseEnds =>
       LET e == stats'[Len(stats')]
           v == local.outputs[1]
       IN /\ e.iterations = Opts.iterations
          /\ e.warmup = Opts.warmup
          /\ e.outputKind = "metric"
          /\ e.outputUnit = "value"
          /\ e.outputAverage.n * v.d = v.n * e.outputAverage.d
          /\ e.avgMs.n >= 0]_vars

\* C12 amended: outputAverage is v rounded to three decimals, the multiple of
\* 1/1000 nearest to v (v itself when v has at most three decimals, as 100).
C12_MetricCaseStatisticsRounded ==
  [][MetricCaseEnds =>
       LET e == stats'[Len(stats')]
           v == local.outputs[1]
           a == e.outputAverage
           diff == a.n * v.d - v.n * a.d
       IN /\ e.iterations = Opts.iterations
          /\ e.warmup = Opts.warmup
          /\ e.outputKind = "metric"
          /\ e.outputUnit = "value"
          /\ a.d = 1000
          /\ 2000 * diff <= a.d * v.d
          /\ 0 - 2000 * diff <= a.d * v.d
          /\ e.avgMs.n >= 0]_vars

C12_Witness ==
  /\ pc = "done"
  /\ Len(stats) = 1
  /\ Len(renderers) = 1
  /\ Opts.tasks = <<"text-layout">>
  /\ Opts.warmup = 2
  /\ Opts.iterations = 5
  /\ log.executed[1].kinds = {"metric"}
  /\ stats[1].outputKind = "metric"
  /\ stats[1].outputAverage = Rat(100000, 1000)
  /\ stats[1].avgMs.n >= 0

RatEq(a, b) == a.n * b.d = b.n * a.d

\* The array with its elements rearranged by a permutation of its indices.
Permuted(values, perm) == [i \in 1..Len(values) |-> values[perm[i]]]

\* The exact sum of non-negative numbers.
RECURSIVE ExactSum(_)
ExactSum(values) ==
  IF values = <<>> THEN Rat(0, 1)
  ELSE RatAdd(ExactSum(SubSeq(values, 1, Len(values) - 1)), values[Len(values)])

\* Every partial sum of the array, taken from the left, is a number of the
\* host's format, so that no addition of the reduce rounds.
SumsExact(values) ==
  \A k \in 1..Len(values) :
    RatEq(RoundToBits(ExactSum(SubSeq(values, 1, k)), host.mantissa),
          ExactSum(SubSeq(values, 1, k)))

\* r is within the rounding error of n operations of the exact mean of values.
NearExactMean(r, values) ==
  LET S == ExactSum(values)
      n == Len(values)
      diff == r.n * S.d * n - S.n * r.d
  IN /\ diff * Pow2(host.mantissa) <= 2 * S.n * r.d * n
     /\ (0 - diff) * Pow2(host.mantissa) <= 2 * S.n * r.d * n

\* C13 as stated: mean([]) = 0, mean([a]) = a, and the mean of every
\* permutation of the array is the value mean returned.
C13_MeanOrderInvariant ==
  (util.fn = "mean" /\ util.returned) =>
    /\ util.input = <<>> => RatEq(util.result, Rat(0, 1))
    /\ Len(util.input) = 1 => RatEq(util.result, util.input[1])
    /\ \A perm \in Permutations(1..Len(util.input)) :
         RatEq(mean(Permuted(util.input, perm)), util.result)

\* C13 amended: mean([]) = 0, mean([a]) = a; the means of two orders of the
\* same numbers are equal when no partial sum rounds in either order, and in
\* general each is within the rounding error of the exact mean.
C13_MeanOrderInvariantUpToRounding ==
  (util.fn = "mean" /\ util.returned) =>
    /\ util.input = <<>> => RatEq(util.result, Rat(0, 1))
    /\ Len(util.input) = 1 => RatEq(util.result, util.input[1])
    /\ \A perm \in Permutations(1..Len(util.input)) :
         LET other == Permuted(util.input, perm)
         IN /\ (SumsExact(util.input) /\ SumsExact(other)) =>
                 RatEq(mean(other), util.result)
            /\ util.input # <<>> => NearExactMean(mean(other), util.input)

C13_Witness ==
  /\ util.fn = "mean"
  /\ util.returned
  /\ Len(util.input) = 3
  /\ \E perm \in Permutations(1..3) :
       ~RatEq(mean(Permuted(util.input, perm)), util.result)
  /\ \E perm \in Permutations(1..3) :
       /\ Permuted(util.input, perm) # util.input
       /\ RatEq(mean(Permuted(util.input, perm)), util.result)

\* The number of elements of the array below v, and not above v.
CountBelow(values, v) == Cardinality({ i \in 1..Len(values) : RatLt(values[i], v) })

CountUpTo(values, v) == Cardinality({ i \in 1..Len(values) : RatLe(values[i], v) })

\* clamp(ceil(length * f) - 1, 0, length - 1), for -1 <= f <= 2.
NearestRankIndex(length, f) ==
  LET c == CHOOSE k \in (0 - length)..(2 * length) :
             k * f.d >= length * f.n /\ (k - 1) * f.d < length * f.n
  IN IF c - 1 < 0 THEN 0 ELSE IF c - 1 > length - 1 THEN length - 1 ELSE c - 1

\* v is what stands at the 0-based index of the array sorted ascending.
AtSortedIndex(values, index, v) ==
  /\ \E i \in 1..Len(values) : values[i] = v
  /\ CountBelow(values, v) <= index
  /\ CountUpTo(values, v) >= index + 1

IsMaximum(values, v) ==
  /\ \E i \in 1..Len(values) : values[i] = v
  /\ \A i \in 1..Len(values) : RatLe(values[i], v)

IsMinimum(values, v) ==
  /\ \E i \in 1..Len(values) : values[i] = v
  /\ \A i \in 1..Len(values) : RatLe(v, values[i])

\* C14: percentile returns 0 for an empty array whatever the fraction; for a
\* non-empty array it returns what stands at index
\* clamp(ceil(length * f) - 1, 0, length - 1) of the array sorted ascending, hence
\* the maximum for f = 1 and the minimum for f = 0; the caller's array is as it
\* was before the call.
C14_PercentileNearestRank ==
  (util.fn = "percentile" /\ util.returned) =>
    /\ util.input = <<>> => util.result = Rat(0, 1)
    /\ util.input # <<>> =>
         /\ AtSortedIndex(util.input, NearestRankIndex(Len(util.input), util.fraction),
                          util.result)
         /\ util.fraction = Rat(1, 1) => IsMaximum(util.input, util.result)
         /\ util.fraction = Rat(0, 1) => IsMinimum(util.input, util.result)
    /\ util.values = util.input

C14_Witness ==
  /\ util.fn = "percentile"
  /\ util.returned
  /\ Len(util.input) = 3
  /\ RatLt(util.input[2], util.input[1])
  /\ util.fraction = Rat(1, 2)
  /\ ~IsMaximum(util.input, util.result)
  /\ ~IsMinimum(util.input, util.result)
  /\ util.values = util.input

\* The options of a command line without arguments.
DefaultOptions ==
  parseCliOptions([workload |-> None, warmup |-> None, iterations |-> None,
                   saveImages |-> FALSE]).options

\* C15: percentile(values, 0.95) of 1 to 19 values is their maximum (for 5
\* values it is sorted index 4); the default number of measured iterations is
\* below 20, and the statistics of a case with that many latencies have
\* p95Ms = maxMs.
C15_P95IsMaxBelow20 ==
  (util.fn = "percentile" /\ util.returned /\ util.fraction = Rat(95, 100)
     /\ Len(util.input) >= 1 /\ Len(util.input) < 20) =>
    /\ IsMaximum(util.input, util.result)
    /\ Len(util.input) = 5 => NearestRankIndex(5, util.fraction) = 4
    /\ DefaultOptions.iterations = 12
    /\ Len(util.input) = DefaultOptions.iterations =>
         LET memory == [rss |-> 0, heapUsed |-> 0]
             loc == [MeasuredLocals(memory) EXCEPT !.times = util.input]
             entry == CaseStats("text-layout", "skia-canvas", DefaultOptions, loc, memory)
         IN /\ entry.p95Ms = entry.maxMs
            /\ RatLt(entry.avgMs, entry.maxMs)

C15_Witness ==
  /\ util.fn = "percentile"
  /\ util.returned
  /\ util.fraction = Rat(95, 100)
  /\ Len(util.input) = 5
  /\ \A i \in 2..5 : RatLt(util.input[i], util.input[1])
  /\ util.result = util.input[1]

\* A step of the harness itself, as opposed to the settling of a backend call.
HarnessStep ==
  \/ ParseCliOptions
  \/ PrepareCall
  \/ PrepareAbsent
  \/ PrepareDone
  \/ CaseStart
  \/ WarmupCall
  \/ Baseline
  \/ MeasureCall
  \/ CaseFinish
  \/ WriteReports

\* C16: while a prepare or run call is in flight the harness is blocked on it:
\* none of its own steps is enabled, every step that is taken settles the call,
\* and until then no case is started, no call is issued and no report is
\* written; a call that never returns therefore blocks the suite for ever.
C16_BlockedWhileCallInFlight ==
  /\ [](pending # {} =>
          /\ pc \in {"awaitPrepare", "awaitWarmup", "awaitMeasure"}
          /\ reportJson = None
          /\ reportMarkdown = None
          /\ ~ENABLED HarnessStep)
  /\ [][pending # {} =>
          /\ pending' # pending
          /\ log'.calls = log.calls
          /\ Len(log'.executed) = Len(log.executed)
          /\ reportJson' = None
          /\ reportMarkdown' = None]_vars

C16_Witness ==
  /\ pc = "awaitMeasure"
  /\ pending # {}
  /\ Len(stats) >= 1
  /\ Len(log.executed) < Len(Opts.tasks) * Len(renderers)
  /\ reportJson = None

\* The cases that ended with statistics after run returned at least one Image
\* result in the measured loop, in execution order.
ImageCases ==
  SelectSeqBy(log.statsCase,
              { i \in 1..Len(log.statsCase) : "image" \in log.executed[log.statsCase[i]].kinds })

\* C17: with image saving enabled, when the suite is done the saved-sample list
\* has exactly one record for each case that ended with statistics and got an
\* Image result in its measured loop, in execution order, with that case's
\* renderer, task and image format, and none for any other case; with image
\* saving disabled no sample is ever captured and the list stays empty.
C17_OneSamplePerImageCase ==
  /\ (options # None /\ ~Opts.saveImages) => local.sample = None /\ savedImages = <<>>
  /\ (pc = "done" /\ Opts.saveImages) =>
       /\ Len(savedImages) = Len(ImageCases)
       /\ \A i \in 1..Len(savedImages) :
            /\ savedImages[i].renderer = CaseRenderer(ImageCases[i])
            /\ savedImages[i].task = CaseTask(ImageCases[i])
            /\ savedImages[i].format =
                 ImageFormat(CaseRenderer(ImageCases[i]), CaseTask(ImageCases[i]))
       /\ \A i \in 1..Len(log.skipCase) : log.skipCase[i] \notin Range(ImageCases)
       /\ \A i \in 1..Len(log.statsCase) :
            log.executed[log.statsCase[i]].kinds = {"metric"} =>
              log.statsCase[i] \notin Range(ImageCases)

C17_Witness ==
  /\ pc = "done"
  /\ Opts.saveImages
  /\ Len(savedImages) = 1
  /\ Len(skipped) >= 1
  /\ Opts.iterations = 2
  /\ \E i \in 1..Len(stats) : stats[i].outputKind = "metric"
  /\ \E i \in 1..Len(stats) : stats[i].outputKind = "image"

\* The fields a TaskOutput carries.
MetricShape == {"kind", "value"}

ImageShape == {"kind", "format", "bytes", "buffer"}

\* C18: every result a shipped renderer's run has returned is, for text-layout,
\* a Metric result and nothing else, and for any other workload an Image result
\* and nothing else, whose bytes is the length of its buffer.
C18_OutputShapeByWorkload ==
  \A k \in Cases : \A output \in log.executed[k].outputs :
    IF CaseTask(k) = "text-layout"
      THEN /\ output.kind = "metric"
           /\ DOMAIN output = MetricShape
      ELSE /\ output.kind = "image"
           /\ DOMAIN output = ImageShape
           /\ output.bytes = output.buffer.length
           /\ output.format \in {"png", "webp", "svg"}

C18_Witness ==
  /\ pc = "done"
  /\ CaseRenderer(1) = "satori (jsx+style)"
  /\ CaseTask(1) = "encode-svg"
  /\ Cardinality(log.executed[1].outputs) = 2
  /\ \E output \in log.executed[1].outputs :
       output.kind = "image" /\ output.bytes = 3000 /\ output.format = "svg"

\* A step in which a run call of the case being executed raises UnsupportedTaskError.
UnsupportedStep ==
  /\ pc \in {"awaitWarmup", "awaitMeasure"}
  /\ Len(log'.executed) = Len(log.executed)
  /\ log'.executed[ThisCase].unsupported = log.executed[ThisCase].unsupported + 1

\* C19: when a run call raises UnsupportedTaskError, in the warmup or in any
\* measured iteration, that step ends the case: one skip record for the case is
\* appended, no statistics entry and no saved-sample record is added, no gc is
\* triggered, the partial measurements are gone, and the suite loop stands at
\* the next case; the case has made no run call beyond the one that raised.
C19_UnsupportedEndsCase ==
  /\ [][UnsupportedStep =>
          /\ Len(skipped') = Len(skipped) + 1
          /\ SubSeq(skipped', 1, Len(skipped)) = skipped
          /\ skipped'[Len(skipped')].renderer = CurrentRenderer.name
          /\ skipped'[Len(skipped')].task = CurrentTask
          /\ stats' = stats
          /\ savedImages' = savedImages
          /\ log'.gcCalls = log.gcCalls
          /\ local'.times = <<>> /\ local'.outputs = <<>> /\ local'.sample = None
          /\ pending' = {}
          /\ pc' = "suite"
          /\ <<taskIdx', rendererIdx'>> =
               (IF rendererIdx < Len(renderers) THEN <<taskIdx, rendererIdx + 1>>
                                               ELSE <<taskIdx + 1, 1>>)]_vars
  /\ [](\A k \in Cases :
          log.executed[k].unsupported > 0 =>
            /\ log.executed[k].unsupported = 1
            /\ log.executed[k].warm + log.executed[k].meas = log.executed[k].returned + 1
            /\ \A i \in 1..Len(log.statsCase) : log.statsCase[i] # k
            /\ Cardinality({ i \in 1..Len(log.skipCase) : log.skipCase[i] = k }) = 1
            /\ (k < ThisCase \/ pc \in {"suite", "done"}))

C19_Witness ==
  /\ options # None
  /\ Opts.saveImages
  /\ Len(log.executed) = 2
  /\ log.executed[1].unsupported = 1
  /\ log.executed[1].meas = 2
  /\ log.executed[1].returned = log.executed[1].warm + 1
  /\ "image" \in log.executed[1].kinds
  /\ savedImages = <<>>
  /\ stats = <<>>
  /\ Len(skipped) = 1
  /\ log.executed[2].warm = 1

\* The positions of an event in the trace of a case.
Positions(trace, event) == { p \in 1..Len(trace) : trace[p] = event }

MaxOf(numbers) == CHOOSE m \in numbers : \A n \in numbers : n <= m

\* The deltas the statistics of a case must show when they are computed against
\* the case's own baseline sample.
OwnDeltas(c) ==
  LET own == ValueOf(c.baseline)
  IN [ rssPeak |-> MaxOf({own.rss} \cup { s.rss : s \in c.samples }) - own.rss,
       heapPeak |-> MaxOf({own.heapUsed} \cup { s.heapUsed : s \in c.samples })
                      - own.heapUsed,
       heapEnd |-> ValueOf(c.ending).heapUsed - own.heapUsed ]

\* n bytes in MB with three decimals.
DeltaMb(n) == round(Rat(n, 1024 * 1024))

\* C20: a case takes at most one baseline sample; it is taken after all W warmup
\* calls were issued and have returned and before any measured call is issued,
\* directly after a gc when the host exposes gc (and with no gc at all when it
\* does not); the peak and end deltas of a case's statistics are those against
\* the case's own baseline.
C20_OwnBaselinePerCase ==
  /\ \A k \in Cases :
       LET c == log.executed[k]
       IN /\ Cardinality(Positions(c.trace, "baseline")) = (IF c.baseline = None THEN 0 ELSE 1)
          /\ ~host.gc => Positions(c.trace, "gc") = {}
          /\ \A p \in Positions(c.trace, "baseline") :
               /\ Cardinality({ q \in Positions(c.trace, "run") : q < p }) = Opts.warmup
               /\ Cardinality({ q \in Positions(c.trace, "returned") : q < p }) = Opts.warmup
               /\ \A q \in 1..(p - 1) : c.trace[q] \in {"run", "returned", "gc"}
               /\ host.gc => (p > 1 /\ c.trace[p - 1] = "gc")
          /\ c.meas > 0 => c.baseline # None
  /\ \A i \in 1..Len(stats) :
       LET c == log.executed[log.statsCase[i]]
       IN /\ stats[i].rssPeakDeltaMb = DeltaMb(OwnDeltas(c).rssPeak)
          /\ stats[i].heapPeakDeltaMb = DeltaMb(OwnDeltas(c).heapPeak)
          /\ stats[i].heapEndDeltaMb = DeltaMb(OwnDeltas(c).heapEnd)

C20_Witness ==
  /\ pc = "done"
  /\ host.gc
  /\ Len(stats) = 2
  /\ log.executed[1].baseline # log.executed[2].baseline
  /\ ValueOf(log.executed[2].baseline).rss > ValueOf(log.executed[1].baseline).rss
  /\ stats[2].rssPeakDeltaMb = Rat(0, 1000)
  /\ stats[1].rssPeakDeltaMb.n > 0
  /\ log.executed[2].trace = <<"run", "returned", "gc", "baseline", "run", "returned",
                                "gc", "ending">>

\* The sample a case must hold after the measured results so far: the payload
\* and the declared format of the first Image among them, if there is one.
FirstImageSample(results) ==
  LET images == { i \in 1..Len(results) : results[i].kind = "image" }
  IN IF images = {} THEN None
     ELSE LET first == CHOOSE i \in images : \A j \in images : i <= j
          IN Some([format |-> results[first].format, buffer |-> results[first].buffer])

\* C21: within a case no sample is held during the warmup; in the measured loop
\* the sample held is, when image saving is requested, the payload and format
\* of the first measured iteration that returned an Image result (so a later
\* iteration never replaces it) and nothing otherwise; the saved-sample record
\* of a finished case carries the format of that first Image result.
C21_SampleIsFirstMeasuredImage ==
  /\ pc \in {"warmup", "awaitWarmup"} => local.sample = None
  /\ pc \in {"measure", "awaitMeasure"} =>
       local.sample = IF Opts.saveImages
                        THEN FirstImageSample(log.executed[ThisCase].measured)
                        ELSE None
  /\ options # None /\ Opts.saveImages =>
       \A i \in 1..Len(savedImages) :
         \E k \in Range(log.statsCase) :
           /\ savedImages[i].task = CaseTask(k)
           /\ savedImages[i].renderer = CaseRenderer(k)
           /\ FirstImageSample(log.executed[k].measured) # None
           /\ savedImages[i].format =
                ValueOf(FirstImageSample(log.executed[k].measured)).format

C21_Witness ==
  /\ pc = "measure"
  /\ Opts.saveImages
  /\ Len(log.executed[ThisCase].warmed) > 0
  /\ log.executed[ThisCase].warmed[1].kind = "image"
  /\ log.executed[ThisCase].warmed[1].bytes = 1000
  /\ Len(log.executed[ThisCase].measured) >= 2
  /\ log.executed[ThisCase].measured[1].bytes = 3000
  /\ log.executed[ThisCase].measured[2].bytes = 1000
  /\ ValueOf(local.sample).buffer.length = 3000

\* The numeric projection of a result: the byte length of an Image result's
\* payload, the raw value of a Metric result.
Projection(result) ==
  IF result.kind = "image" THEN Rat(result.buffer.length, 1) ELSE result.value

\* a is the multiple of 1/1000 nearest to the exact mean of the projections.
RoundedMeanOf(a, results) ==
  LET S == ExactSum([i \in 1..Len(results) |-> Projection(results[i])])
      n == Len(results)
      diff == a.n * S.d * n - S.n * a.d
  IN /\ a.d = 1000
     /\ 2 * diff <= S.d * n
     /\ 0 - 2 * diff <= S.d * n

\* C22: in every statistics entry outputUnit is "bytes" exactly when outputKind
\* is "image" and "value" exactly when outputKind is "metric"; the entry's case
\* has exactly N measured results, all of the entry's kind, and outputAverage is
\* the mean of their projections rounded to three decimals.
C22_OutputUnitAndAverage ==
  \A i \in 1..Len(stats) :
    LET e == stats[i]
        c == log.executed[log.statsCase[i]]
    IN /\ e.outputKind \in {"image", "metric"}
       /\ (e.outputUnit = "bytes") <=> (e.outputKind = "image")
       /\ (e.outputUnit = "value") <=> (e.outputKind = "metric")
       /\ Len(c.measured) = Opts.iterations
       /\ e.iterations = Opts.iterations
       /\ \A j \in 1..Len(c.measured) : c.measured[j].kind = e.outputKind
       /\ RoundedMeanOf(e.outputAverage, c.measured)

C22_Witness ==
  /\ Len(stats) = 1
  /\ stats[1].outputKind = "image"
  /\ stats[1].outputUnit = "bytes"
  /\ stats[1].iterations = 3
  /\ { r.bytes : r \in Range(log.executed[1].measured) } = {1000, 3000}
  /\ RatEq(stats[1].outputAverage, Rat(5000, 3)) = FALSE
  /\ stats[1].outputAverage = round(Rat(5000, 3))

\* The closed workload set.
WorkloadSet ==
  { "image-buffer", "image-stream", "kitchen-sink", "text-layout",
    "encode-png", "encode-webp", "encode-svg" }

\* The k-th of the pieces of str that its commas separate.
CommasOf(str) == { i \in 1..Len(str) : str[i] = "," }

CommaAt(str, k) ==
  IF k = 0 THEN 0
  ELSE IF k > Cardinality(CommasOf(str)) THEN Len(str) + 1
  ELSE CHOOSE i \in CommasOf(str) : Cardinality({ j \in CommasOf(str) : j <= i }) = k

PieceOf(str, k) == SubSeq(str, CommaAt(str, k - 1) + 1, CommaAt(str, k) - 1)

\* str without its leading and trailing blanks.
Stripped(str) ==
  LET inked == { i \in 1..Len(str) : str[i] # " " }
  IN IF inked = {} THEN <<>>
     ELSE SubSeq(str, CHOOSE i \in inked : \A j \in inked : i <= j,
                      CHOOSE i \in inked : \A j \in inked : j <= i)

\* The places <<argument, piece>> of the non-empty items of the arguments, and
\* their order: by argument, then by position in the argument.
ItemPlaces(args) ==
  { pl \in (1..Len(args)) \X (1..(MaxLen + 2)) :
      /\ pl[2] <= Cardinality(CommasOf(args[pl[1]])) + 1
      /\ Stripped(PieceOf(args[pl[1]], pl[2])) # <<>> }

PlaceBefore(a, b) == a[1] < b[1] \/ (a[1] = b[1] /\ a[2] <= b[2])

\* items is the sequence of the items at the given places, in their order.
IsItemsOf(items, args, places) ==
  /\ Len(items) = Cardinality(places)
  /\ \A pl \in places :
       items[Cardinality({ q \in places : PlaceBefore(q, pl) })] =
         Stripped(PieceOf(args[pl[1]], pl[2]))

UnknownPlaces(args) ==
  { pl \in ItemPlaces(args) :
      \A t \in WorkloadSet : Stripped(PieceOf(args[pl[1]], pl[2])) # <<t>> }

\* C23: parseTasks returns the seven workloads in declared order when no
\* workload is requested; otherwise, with the items being the non-empty trimmed
\* pieces between the commas of the arguments, it raises an error when there is
\* no item, an error naming every unknown item (in the caller's order) when an
\* item is not in the closed workload set, and else returns the items in the
\* caller's order.
C23_ParseTasks ==
  (util.fn = "parseTasks" /\ util.returned) =>
    IF util.input = None
      THEN /\ util.result.ok
           /\ util.result.tasks =
                << "image-buffer", "image-stream", "kitchen-sink", "text-layout",
                   "encode-png", "encode-webp", "encode-svg" >>
    ELSE LET args == ValueOf(util.input)
             r == util.result
         IN IF ItemPlaces(args) = {}
              THEN ~r.ok /\ r.error = "--workload requires at least one task name"
            ELSE IF UnknownPlaces(args) # {}
              THEN /\ ~r.ok
                   /\ r.error = "Unknown workload(s)"
                   /\ IsItemsOf(r.invalid, args, UnknownPlaces(args))
            ELSE /\ r.ok
                 /\ IsItemsOf([i \in 1..Len(r.tasks) |-> <<r.tasks[i]>>], args,
                              ItemPlaces(args))

C23_Witness ==
  /\ util.fn = "parseTasks"
  /\ util.returned
  /\ util.input = Some(<< <<"encode-png", ",", "text-layout">> >>)
  /\ util.result.ok
  /\ util.result.tasks = <<"encode-png", "text-layout">>

\* The five (renderer, workload) pairs no run call of which returns a result.
UnsupportedPairs ==
  { <<"@napi-rs/canvas", "encode-svg">>,
    <<"takumi (jsx+style)", "encode-svg">>, <<"takumi (jsx+tw)", "encode-svg">>,
    <<"satori (jsx+style)", "encode-webp">>, <<"satori (jsx+tw)", "encode-webp">> }

CasesOfUnsupportedPairs == { k \in Cases : <<CaseRenderer(k), CaseTask(k)>> \in UnsupportedPairs }

\* A completed suite has a skip record for each requested occurrence of each of
\* the five pairs and no statistics entry for any of them.
UnsupportedPairsSkipped ==
  pc = "done" =>
    \A pair \in UnsupportedPairs :
      (pair[1] \in RendererNames /\ pair[2] \in Range(Opts.tasks)) =>
        /\ Cardinality(SkipsOfPair(pair[1], pair[2])) = Cardinality(Occurrences(pair[2]))
        /\ Cardinality(SkipsOfPair(pair[1], pair[2])) >= 1
        /\ StatsOfPair(pair[1], pair[2]) = {}

\* C24 as stated: every run call that ended for one of the five pairs raised
\* UnsupportedTaskError, and a completed suite has a skip record for each of the
\* five pairs and no statistics entry for any of them.
C24_AlwaysUnsupported ==
  /\ \A k \in CasesOfUnsupportedPairs :
       /\ log.executed[k].returned = 0
       /\ log.executed[k].fatal = 0
  /\ UnsupportedPairsSkipped

\* C24 amended: no run call for one of the five pairs returns a result; takumi
\* (encode-svg) and satori (encode-webp) refuse the task before any work, so
\* their run always raises UnsupportedTaskError; @napi-rs/canvas refuses
\* encode-svg only in its encoder, after the images were loaded and the scene
\* drawn, so its run raises UnsupportedTaskError unless loading or drawing
\* fails, which is a fatal error; the completed suite is as stated.
C24_NeverReturnsForUnsupportedPairs ==
  /\ \A k \in CasesOfUnsupportedPairs :
       LET c == log.executed[k]
       IN /\ c.returned = 0
          /\ CaseRenderer(k) # "@napi-rs/canvas" =>
               /\ c.fatal = 0
               /\ c.threw \in {None, Some("reject")}
          /\ CaseRenderer(k) = "@napi-rs/canvas" =>
               /\ c.unsupported > 0 => c.threw = Some("encode")
               /\ c.fatal > 0 => c.threw \in {Some("load"), Some("draw")}
  /\ UnsupportedPairsSkipped

C24_Witness ==
  /\ pc = "done"
  /\ "fatal" \in host.failures
  /\ renderers = benchRenderers
  /\ Opts.tasks = ALL_TASKS
  /\ Len(stats) = 44
  /\ Len(skipped) = 5
  /\ skipped[3].renderer = "@napi-rs/canvas"
  /\ skipped[3].task = "encode-svg"
  /\ \A pair \in UnsupportedPairs : Cardinality(SkipsOfPair(pair[1], pair[2])) = 1

\* The cases of the four backends that wrap their encoder's errors.
WrappingBackends ==
  {"@napi-rs/canvas", "node-canvas", "skia-canvas", "takumi (jsx+style)", "takumi (jsx+tw)"}

\* Case k ended as a skip record and the suite went on.
EndedAsSkip(k) ==
  /\ log.executed[k].unsupported = 1
  /\ log.executed[k].fatal = 0
  /\ k \in Range(log.skipCase)
  /\ \E i \in 1..Len(skipped) :
       skipped[i].renderer = CaseRenderer(k) /\ skipped[i].task = CaseTask(k)
  /\ pc # "failed"

\* Case k ended in a fatal error that aborted the suite.
EndedAsAbort(k) ==
  /\ log.executed[k].fatal = 1
  /\ log.executed[k].unsupported = 0
  /\ k \notin Range(log.skipCase)
  /\ k = Len(log.executed)
  /\ pc = "failed"
  /\ reportJson = None /\ reportMarkdown = None

\* The encoder of case k is the unguarded png promise of a skia canvas without toBuffer.
UnguardedPngEncoder(k) ==
  /\ CaseRenderer(k) = "skia-canvas"
  /\ host.canvas = "png"
  /\ ImageFormat(CaseRenderer(k), CaseTask(k)) = "png"

\* C28 as stated: in the four backends an exception of the encoding / render
\* step ends the case as a skip record, and an exception of image loading,
\* scene drawing or text measurement aborts the suite.
C28_EncodeErrorsAreSkips ==
  \A k \in Cases :
    CaseRenderer(k) \in WrappingBackends =>
      /\ log.executed[k].threw \in {Some("encode"), Some("render")} => EndedAsSkip(k)
      /\ log.executed[k].threw \in {Some("load"), Some("draw"), Some("measure")} =>
           EndedAsAbort(k)

\* C28 amended: as stated, except that skia-canvas encodes png through the
\* canvas.png promise when the canvas has no toBuffer, and an exception of that
\* encoder is not wrapped: it aborts the suite; so does an exception of
\* takumi's conversion of the element to nodes, before its render call.
C28_WrappedEncodeErrorsAreSkips ==
  \A k \in Cases :
    CaseRenderer(k) \in WrappingBackends =>
      /\ (log.executed[k].threw \in {Some("encode"), Some("render")}
            /\ ~UnguardedPngEncoder(k)) => EndedAsSkip(k)
      /\ (log.executed[k].threw = Some("encode") /\ UnguardedPngEncoder(k)) =>
           EndedAsAbort(k)
      /\ log.executed[k].threw \in {Some("load"), Some("draw"), Some("measure"),
                                     Some("convert")} => EndedAsAbort(k)

C28_Witness ==
  /\ pc = "done"
  /\ CaseRenderer(1) = "skia-canvas"
  /\ CaseTask(1) = "encode-webp"
  /\ host.canvas = "toBuffer"
  /\ log.executed[1].threw = Some("encode")
  /\ log.executed[1].meas = 2
  /\ Len(skipped) = 1
  /\ Len(stats) = 0

\* The calls made so far that asked module m for its initialisation and saw
\* it end with one of the outcomes.
InitCalls(m, outcomes) ==
  { i \in 1..Len(util.history) :
      /\ ModuleOf(util.history[i].renderer) = m
      /\ util.history[i].inits
      /\ util.history[i].outcome \in outcomes }

\* C25 as stated: after any sequence of prepare and run calls every backend
\* module has performed its font registration / engine construction at most
\* once; the two takumi variants count on one module, and so do the two satori
\* variants.
C25_InitialisedAtMostOnce ==
  util.fn = "backend" =>
    \A i \in 1..Len(renderers) : modules[ModuleOf(renderers[i].name)].inits <= 1

\* C25 amended: a module that has completed its initialisation never performs
\* it again; a module that memoises a promise (takumi, satori, each shared by
\* its two variants) performs it at most once even when it fails, every later
\* call being rejected alike; a module guarded by a flag (napiCanvas,
\* nodeCanvas, skiaCanvas) starts over on each call after one that threw, so it
\* has registered the regular font once for every call that threw after doing
\* so, plus once if it is initialised.
C25_InitialisedOnceUnlessItThrew ==
  util.fn = "backend" =>
    \A i \in 1..Len(renderers) :
      LET m == ModuleOf(renderers[i].name)
          failed == InitCalls(m, {"first", "second", "rejected"})
      IN /\ InitCalls(m, {"ok"}) # {} <=> modules[m].state = "ready"
         /\ m \in {"takumi", "satori"} =>
              /\ modules[m].inits <= 1
              /\ InitCalls(m, {"ok"}) = {} \/ failed = {}
              /\ Cardinality(InitCalls(m, {"first", "second"})) <= 1
         /\ m \notin {"takumi", "satori"} =>
              /\ modules[m].inits = Cardinality(InitCalls(m, {"second"}))
                                      + (IF modules[m].state = "ready" THEN 1 ELSE 0)
              /\ InitCalls(m, {"rejected"}) = {}
              /\ \A a \in InitCalls(m, {"ok"}), b \in failed : b < a

C25_Witness ==
  /\ util.fn = "backend"
  /\ Len(util.history) = 3
  /\ util.history[1].renderer = "takumi (jsx+style)" /\ util.history[1].op = "prepare"
  /\ util.history[2].renderer = "takumi (jsx+tw)" /\ util.history[2].op = "run"
  /\ util.history[3].renderer = "takumi (jsx+tw)" /\ util.history[3].op = "prepare"
  /\ \A i \in 1..3 : util.history[i].outcome = "ok"
  /\ modules["takumi"] = [state |-> "ready", inits |-> 1]

\* The executed cases that have a statistics entry, and those that have a skip record.
CasesWithStats == Range(log.statsCase)

CasesWithSkip == Range(log.skipCase)

\* C26: when a suite run is complete, the cases executed are the requested
\* workload occurrences times the registered backends, each once; every one of
\* them has either one statistics entry or one skip record, never both, so the
\* statistics entries and the skip records together are as many as the cases.
C26_EveryCaseAccountedOnce ==
  pc = "done" =>
    /\ Len(log.executed) = Len(Opts.tasks) * Len(renderers)
    /\ \A t \in 1..Len(Opts.tasks), r \in 1..Len(renderers) :
         Cardinality({ k \in Cases : log.executed[k].task = t
                                      /\ log.executed[k].renderer = r }) = 1
    /\ Len(stats) + Len(skipped) = Len(Opts.tasks) * Len(renderers)
    /\ Len(log.statsCase) = Len(stats)
    /\ Len(log.skipCase) = Len(skipped)
    /\ Cardinality(CasesWithStats) = Len(stats)
    /\ Cardinality(CasesWithSkip) = Len(skipped)
    /\ CasesWithStats \cap CasesWithSkip = {}
    /\ CasesWithStats \cup CasesWithSkip = Cases
    /\ \A i \in 1..Len(stats) :
         /\ stats[i].task = CaseTask(log.statsCase[i])
         /\ stats[i].renderer = CaseRenderer(log.statsCase[i])
    /\ \A i \in 1..Len(skipped) :
         /\ skipped[i].task = CaseTask(log.skipCase[i])
         /\ skipped[i].renderer = CaseRenderer(log.skipCase[i])

C26_Witness ==
  /\ pc = "done"
  /\ Len(Opts.tasks) = 2
  /\ Opts.tasks[1] = Opts.tasks[2]
  /\ Len(renderers) = 2
  /\ Len(stats) = 3
  /\ Len(skipped) = 1

\* C27: once a prepare call has raised an error, UnsupportedTaskError or not, the
\* run has failed: there is no skip record and no statistics entry, no case was
\* started, no run call was or will be issued (the only calls made are the
\* prepare calls up to the failing one), and neither report is written.
C27_PrepareErrorAborts ==
  log.prepareRaised # None =>
    /\ pc = "failed"
    /\ skipped = <<>>
    /\ stats = <<>>
    /\ savedImages = <<>>
    /\ log.executed = <<>>
    /\ pending = {}
    /\ log.calls = Cardinality({ r \in 1..rendererIdx : renderers[r].prepare })
    /\ \A r \in 1..Len(renderers) :
         log.prepareCalls[r] = (IF r <= rendererIdx /\ renderers[r].prepare THEN 1 ELSE 0)
    /\ reportJson = None
    /\ reportMarkdown = None
    /\ ~ENABLED Next

C27_Witness ==
  /\ log.prepareRaised = Some("unsupported")
  /\ pc = "failed"
  /\ rendererIdx = 2
  /\ log.prepareReturned[1] = 1
  /\ log.calls = 2

\* The run has ended with both reports written after every requested case was executed.
EndedWithReports ==
  /\ pc = "done"
  /\ reportJson # None
  /\ reportMarkdown # None
  /\ pending = {}
  /\ \A t \in 1..Len(Opts.tasks), r \in 1..Len(renderers) :
       \E k \in Cases : log.executed[k].task = t /\ log.executed[k].renderer = r
  /\ Len(stats) + Len(skipped) = Len(Opts.tasks) * Len(renderers)

\* The run has ended with an error that left the main module, and no report.
EndedWithError ==
  /\ pc \in {"failed", "configError"}
  /\ reportJson = None
  /\ reportMarkdown = None

\* C29: if every prepare and run call eventually returns or raises, the run
\* eventually ends, and it stays ended: either with both reports written after
\* all requested cases were executed, or with a propagated error and no report.
C29_SuiteTerminates ==
  /\ <>[](EndedWithReports \/ EndedWithError)
  /\ [](pc \in {"done", "failed", "configError"} => (EndedWithReports \/ EndedWithError))

C29_Witness ==
  /\ EndedWithReports
  /\ renderers = benchRenderers
  /\ Len(Opts.tasks) = 7
  /\ Opts.tasks[1] = "encode-svg"
  /\ Len(log.executed) = 49
  /\ log.calls = 6 + 2 * 44 + 5

\* The step of main that builds and writes the two reports.
ReportsWritten == pc = "suite" /\ pc' = "done"

\* The entries are those of the cases that ended with statistics, in the order
\* in which those cases were executed.
InExecutionOrder(entries) ==
  /\ Len(entries) = Len(log.statsCase)
  /\ \A i \in 1..Len(entries) :
       /\ entries[i].task = Opts.tasks[log.executed[log.statsCase[i]].task]
       /\ entries[i].renderer = renderers[log.executed[log.statsCase[i]].renderer].name
  /\ \A i, j \in 1..Len(log.statsCase) : i < j => log.statsCase[i] < log.statsCase[j]

\* C30: assembling the Markdown report leaves the statistics, skip and
\* saved-sample sequences as they were, so the statistics of the JSON report,
\* serialised after the Markdown report was built, are what a serialisation
\* before it would have written: the entries in execution order.
C30_MarkdownLeavesSequences ==
  [][ReportsWritten =>
       /\ stats' = stats
       /\ skipped' = skipped
       /\ savedImages' = savedImages
       /\ ValueOf(reportJson') = ReportJson(Opts, stats, skipped, savedImages)
       /\ InExecutionOrder(ValueOf(reportJson').stats)]_vars

\* Both reports are written, and a table of the Markdown report lists two
\* renderers in the reverse of the order in which they were executed.
C30_Witness ==
  /\ pc = "done"
  /\ reportJson # None
  /\ skipped # <<>>
  /\ \E t \in 1..Len(Opts.tasks) :
       LET rows == ValueOf(reportMarkdown).tasks[t].rows
       IN /\ Len(rows) >= 2
          /\ \E i, j \in 1..Len(ValueOf(reportJson).stats) :
               /\ i < j
               /\ ValueOf(reportJson).stats[i].task = Opts.tasks[t]
               /\ ValueOf(reportJson).stats[j].task = Opts.tasks[t]
               /\ rows[1].renderer = ValueOf(reportJson).stats[j].renderer
               /\ rows[2].renderer = ValueOf(reportJson).stats[i].renderer

====
